---- MODULE Spec2Model ----
(***************************************************************************)
(* Model of the tour scraping pipeline of si0411/simbro1:                  *)
(*   - CategorizedTourExtractor.extract_tour_data and its extractors       *)
(*     (BT_scraping/categorized_extractor.py), specification Spec;         *)
(*   - enhance_json_with_csv_data and its loaders and parsers              *)
(*     (BT_scraping/merge_csv_data.py), specification MergeSpec.           *)
(* Text is modelled as a sequence of one-character strings, a display date *)
(* string as a sequence of whitespace-separated tokens.  A nullable value  *)
(* is None (the empty tuple) or Some(v) (a one-element tuple).             *)
(***************************************************************************)
EXTENDS Integers, Sequences, FiniteSets, TLC

VARIABLES
    pc,          \* position inside extract_tour_data / enhance_json_with_csv_data
    url,         \* argument of extract_tour_data
    page,        \* the document served for url
    tour_data,   \* the record under construction
    result,      \* value returned by extract_tour_data
    ran,         \* extractors entered so far, in call order
    cur,         \* index of the next currency of the price loop
    session,     \* currency preference held by the server for self.session
    attempts,    \* per currency: what its loop iteration did
    faults,      \* failures the environment has injected into this call
    today,       \* datetime.now() of the run
    remembered,  \* (url, tour_id) of one earlier full record, or None
    mfiles,      \* merge: ledger and price files on disk
    csv_data,    \* merge: result of load_csv_data
    global_prices, \* merge: result of load_global_prices
    tours,       \* merge: the tours of the JSON file, as loaded
    out_tours,   \* merge: the tours written so far
    ti           \* merge: index of the next tour to process

vars == <<pc, url, page, tour_data, result, ran, cur, session, attempts,
          faults, today, remembered, mfiles, csv_data, global_prices, tours,
          out_tours, ti>>

extractVars == <<pc, url, page, tour_data, result, ran, cur, session,
                 attempts, faults, today, remembered>>
mergeVars == <<mfiles, csv_data, global_prices, tours, out_tours, ti>>

----------------------------------------------------------------------------
(* Values *)

None == <<>>
Some(v) == <<v>>
IsNone(o) == o = <<>>

Last(s) == s[Len(s)]

RECURSIVE Flatten(_)
Flatten(ss) == IF ss = <<>> THEN <<>> ELSE Head(ss) \o Flatten(Tail(ss))

RECURSIVE SumSeq(_)
SumSeq(s) == IF s = <<>> THEN 0 ELSE Head(s) + SumSeq(Tail(s))

RECURSIVE MaxSeq(_)
MaxSeq(s) == IF Len(s) = 1 THEN s[1]
             ELSE LET m == MaxSeq(Tail(s)) IN IF s[1] >= m THEN s[1] ELSE m

----------------------------------------------------------------------------
(* Bounds of the model *)

\* failures (exceptions, rejected requests) injected into one call of
\* extract_tour_data under Spec
MaxFaults == 2

----------------------------------------------------------------------------
(* Text *)

Upper == <<"A","B","C","D","E","F","G","H","I","J","K","L","M",
           "N","O","P","Q","R","S","T","U","V","W","X","Y","Z">>
LowerL == <<"a","b","c","d","e","f","g","h","i","j","k","l","m",
            "n","o","p","q","r","s","t","u","v","w","x","y","z">>
Punct == <<":", "/", ".", "-", " ", "_", "&", "|",
           "0","1","2","3","4","5","6","7","8","9">>
Alphabet == LowerL \o Upper \o Punct

\* ordinal of a character, standing for its byte value
CodeTable ==
    [c \in {Alphabet[i] : i \in 1..Len(Alphabet)} |->
        CHOOSE i \in 1..Len(Alphabet) : Alphabet[i] = c]
Code(c) == CodeTable[c]

IsUpper(c) == \E i \in 1..26 : Upper[i] = c
IsLower(c) == \E i \in 1..26 : LowerL[i] = c
LowerTable == [c \in {Upper[i] : i \in 1..26} |-> LowerL[CHOOSE i \in 1..26 : Upper[i] = c]]
UpperTable == [c \in {LowerL[i] : i \in 1..26} |-> Upper[CHOOSE i \in 1..26 : LowerL[i] = c]]
LowerChar(c) == IF c \in DOMAIN LowerTable THEN LowerTable[c] ELSE c
UpperChar(c) == IF c \in DOMAIN UpperTable THEN UpperTable[c] ELSE c

\* str.lower()
Lower(t) == [i \in 1..Len(t) |-> LowerChar(t[i])]

\* str.startswith / str.endswith
StartsWith(t, p) == Len(t) >= Len(p) /\ SubSeq(t, 1, Len(p)) = p
EndsWith(t, p) == Len(t) >= Len(p) /\ SubSeq(t, Len(t) - Len(p) + 1, Len(t)) = p

\* str.split('/')
RECURSIVE SplitOn(_, _)
SplitOn(t, sep) ==
    IF \A i \in 1..Len(t) : t[i] # sep THEN <<t>>
    ELSE LET k == CHOOSE i \in 1..Len(t) :
                      t[i] = sep /\ \A j \in 1..(i-1) : t[j] # sep
         IN <<SubSeq(t, 1, k - 1)>> \o SplitOn(SubSeq(t, k + 1, Len(t)), sep)

\* str.replace(a, b) for single characters
ReplaceChar(t, a, b) == [i \in 1..Len(t) |-> IF t[i] = a THEN b ELSE t[i]]

\* substring test: p in t
Contains(t, p) ==
    \E i \in 1..(Len(t) - Len(p) + 1) : SubSeq(t, i, i + Len(p) - 1) = p

IsSpace(c) == c = " "

\* str.strip()
RECURSIVE Strip(_)
Strip(t) ==
    IF t = <<>> THEN t
    ELSE IF IsSpace(t[1]) THEN Strip(Tail(t))
    ELSE IF IsSpace(t[Len(t)]) THEN Strip(SubSeq(t, 1, Len(t) - 1))
    ELSE t

Filler(n) == [i \in 1..n |-> "x"]

----------------------------------------------------------------------------
(* The fixed currency set *)

HexDigitsOfTen == <<"0","1","2","3","4","5","6","7","8","9">>

\* currency_mapping, in iteration order (categorized_extractor.py:711)
Currencies == <<"USD", "NZD", "GBP", "EUR", "CAD", "AUD">>
CurrencySet == {Currencies[i] : i \in 1..Len(Currencies)}

\* the order of the validation pass and of the initial record
ValidatedCurrencies == <<"GBP", "USD", "EUR", "CAD", "AUD", "NZD">>

\* the currency sign the price pattern of a currency looks for, as the
\* bytes of the source file spell it
PatternSign(c) ==
    IF c \in {"USD", "CAD", "AUD", "NZD"} THEN "$"
    ELSE IF c = "EUR" THEN "U+00E2 U+201A U+00AC"
    ELSE IF c = "GBP" THEN "U+00C2 U+00A3"
    ELSE "no pattern"

\* minimum plausible price
PriceFloor == 300

IsDigit(c) == c \in {"0","1","2","3","4","5","6","7","8","9"}
DigitTable == [c \in {HexDigitsOfTen[d + 1] : d \in 0..9} |->
                  CHOOSE d \in 0..9 : HexDigitsOfTen[d + 1] = c]
DigitVal(c) == DigitTable[c]

\* int() of a text of decimal digits
RECURSIVE IntOf(_)
IntOf(t) == IF t = <<>> THEN 0
            ELSE 10 * IntOf(SubSeq(t, 1, Len(t) - 1)) + DigitVal(t[Len(t)])

\* str.replace(c, '')
RemoveChar(t, c) == SelectSeq(t, LAMBDA x : x # c)

\* the text matches \d+[,\d]*
IsPriceNumber(t) ==
    /\ t # <<>>
    /\ IsDigit(t[1])
    /\ \A i \in 1..Len(t) : IsDigit(t[i]) \/ t[i] = ","

\* _extract_price_for_currency over the price-bearing elements of a page;
\* the text of an element is a currency sign followed by a number
PriceCandidates(elems, c) ==
    LET hits == SelectSeq(elems, LAMBDA e :
                    /\ e.sign = PatternSign(c)
                    /\ IsPriceNumber(e.number)
                    /\ IntOf(RemoveChar(e.number, ",")) > PriceFloor)
    IN [i \in 1..Len(hits) |-> IntOf(RemoveChar(hits[i].number, ","))]

ExtractPriceForCurrency_first(elems, c) ==
    LET cands == PriceCandidates(elems, c)
    IN IF cands = <<>> THEN 0 ELSE cands[1]

ExtractPriceForCurrency(elems, c) ==
    LET cands == PriceCandidates(elems, c)
    IN IF cands = <<>> THEN 0 ELSE MaxSeq(cands)

----------------------------------------------------------------------------
(* tour_id *)

HexDigits == <<"0","1","2","3","4","5","6","7","8","9","a","b","c","d","e","f">>

RECURSIVE WeightedSum(_, _, _)
WeightedSum(t, j, i) ==
    IF j > Len(t) THEN 0
    ELSE (Code(t[j]) * (j + i * i) + 3 * WeightedSum(t, j + 1, i)) % 65536

\* hashlib.md5(url.encode()).hexdigest(): 32 hex digits, every digit a
\* function of every character of the text and of its position
MD5HexLen == 32
MD5Hex(t) ==
    [i \in 1..MD5HexLen |-> HexDigits[((WeightedSum(t, 1, i) + 7 * i) % 16) + 1]]

ShortHashLen == 8

\* the id when the hash also covers the date stamp of the run
GenerateTourId_dated(u) ==
    Last(SplitOn(u, "/")) \o <<"_">> \o SubSeq(MD5Hex(u \o today), 1, ShortHashLen)

\* _generate_tour_id
GenerateTourId(u) ==
    Last(SplitOn(u, "/")) \o <<"_">> \o SubSeq(MD5Hex(u), 1, ShortHashLen)

----------------------------------------------------------------------------
(* The record of extract_tour_data *)

EmptyTourInformation ==
    [description |-> <<>>,
     duration |-> [days |-> 0, display |-> <<>>],
     age_range |-> [min |-> 0, max |-> 0, display |-> <<>>],
     num_activities |-> 0,
     num_meals |-> 0,
     avg_group_size |-> <<>>,
     operator |-> <<>>,
     starting_point |-> <<>>,
     ending_point |-> <<>>,
     num_reviews |-> 0,
     included_items |-> <<>>,
     excluded_items |-> <<>>,
     activities_incl |-> <<>>]

EmptySeoData ==
    [meta_title |-> <<>>, meta_description |-> <<>>, meta_keywords |-> <<>>,
     open_graph |-> <<>>]

ZeroPrices == [c \in CurrencySet |-> Some(0)]

\* the initial tour_data of extract_tour_data
NewTourData(u, d) ==
    [tour_name |-> <<>>,
     tour_id |-> <<>>,
     url |-> u,
     country |-> <<>>,
     last_updated |-> d,
     status |-> "active",
     tour_colour |-> <<>>,
     seo_data |-> EmptySeoData,
     tour_information |-> EmptyTourInformation,
     itinerary |-> <<>>,
     starting_dates |-> <<>>,
     price |-> ZeroPrices]

RecordKeys == {"tour_name", "tour_id", "url", "country", "last_updated",
               "status", "tour_colour", "seo_data", "tour_information",
               "itinerary", "starting_dates", "price"}

\* the error form with the id of the tour added to it
ErrorResult_withId(u, e) == [url |-> u, error |-> e, tour_id |-> GenerateTourId(u)]

\* the value returned when the call is aborted
ErrorResult(u, e) == [url |-> u, error |-> e]

IsErrorForm(r) == DOMAIN r = {"url", "error"}
IsFullRecord(r) == DOMAIN r = RecordKeys

----------------------------------------------------------------------------
(* _extract_tour_name *)

\* h1_selectors, in order
H1Selectors == <<".hero__content h1", ".tour-header h1", "h1.tour-title",
                 ".page-header h1", "h1[class*=title]", "h1[class*=heading]",
                 "h1">>

H1Denylist == {<<"t","o","u","r","s">>, <<"t","o","u","r">>, <<"b","a","c","k","p","a","c","k","i","n","g"," ","t","o","u","r","s">>, <<"g","r","o","u","p"," ","t","o","u","r","s">>,
               <<"b","a","c","k","p","a","c","k","i","n","g">>, <<"a","d","v","e","n","t","u","r","e">>}

TitleDenylist == H1Denylist \cup {<<"h","o","m","e">>, <<"b","o","o","k">>}

\* the validation without the list of generic names
ValidH1Name_noDenylist(t) ==
    /\ t # <<>>
    /\ Len(t) > 3
    /\ ~StartsWith(Lower(t), <<"b","o","o","k">>)
    /\ ~EndsWith(Lower(t), <<"t","o","u","r","s">>)

\* the validation of a heading candidate
ValidH1Name(t) ==
    /\ t # <<>>
    /\ Len(t) > 3
    /\ Lower(t) \notin H1Denylist
    /\ ~StartsWith(Lower(t), <<"b","o","o","k">>)
    /\ ~EndsWith(Lower(t), <<"t","o","u","r","s">>)

\* the text matches \s*[-|]\s*<lit> at position i, ignoring case
SuffixMatchAt(t, i, lit) ==
    \E j \in i..Len(t) :
        /\ \A k \in i..(j - 1) : IsSpace(t[k])
        /\ t[j] \in {"-", "|"}
        /\ \E m \in (j + 1)..(Len(t) + 1) :
              /\ \A k \in (j + 1)..(m - 1) : IsSpace(t[k])
              /\ m + Len(lit) - 1 <= Len(t)
              /\ Lower(SubSeq(t, m, m + Len(lit) - 1)) = Lower(lit)

\* re.sub(r'\s*[-|]\s*<lit>.*$', '', t, flags=re.IGNORECASE)
StripSuffix(t, lit) ==
    LET hits == {i \in 1..Len(t) : SuffixMatchAt(t, i, lit)}
    IN IF hits = {} THEN t
       ELSE SubSeq(t, 1, (CHOOSE i \in hits : \A h \in hits : i <= h) - 1)

CleanTitle(t) == StripSuffix(StripSuffix(t, <<"B","a","c","k","p","a","c","k","i","n","g"," ","T","o","u","r","s">>), <<"B","T">>)

\* the validation of the cleaned <title> text
ValidTitleName(t) ==
    /\ t # <<>>
    /\ Len(t) > 3
    /\ Lower(t) \notin TitleDenylist
    /\ ~StartsWith(Lower(t), <<"b","o","o","k">>)
    /\ ~Contains(Lower(t), <<"c","o","o","k","i","e">>)

\* the last selector, from k on, whose element exists and validates; 0 if none
RECURSIVE FirstValidH1_last(_, _)
FirstValidH1_last(h1, k) ==
    IF k > Len(H1Selectors) THEN 0
    ELSE IF FirstValidH1_last(h1, k + 1) # 0 THEN FirstValidH1_last(h1, k + 1)
    ELSE IF h1[k].found /\ ValidH1Name(Strip(h1[k].text)) THEN k
    ELSE 0

\* the first selector, from k on, whose element exists and validates; 0 if none
RECURSIVE FirstValidH1(_, _)
FirstValidH1(h1, k) ==
    IF k > Len(H1Selectors) THEN 0
    ELSE IF h1[k].found /\ ValidH1Name(Strip(h1[k].text)) THEN k
    ELSE FirstValidH1(h1, k + 1)

\* the name _extract_tour_name leaves in tour_data['tour_name']
ExtractTourName(p) ==
    LET k == FirstValidH1(p.h1, 1)
    IN IF k # 0 THEN Strip(p.h1[k].text)
       ELSE IF p.title.found /\ ValidTitleName(CleanTitle(Strip(p.title.text)))
            THEN CleanTitle(Strip(p.title.text))
       ELSE <<>>

----------------------------------------------------------------------------
(* The field parsers *)

\* the end of the run of digits that starts at i
RunEnd(t, i) ==
    CHOOSE e \in i..Len(t) :
        /\ \A k \in i..e : IsDigit(t[k])
        /\ (e = Len(t) \/ ~IsDigit(t[e + 1]))

\* re.findall(r'\d+', t) converted with int(), from position i on
RECURSIVE NumbersFrom(_, _)
NumbersFrom(t, i) ==
    IF i > Len(t) THEN <<>>
    ELSE IF ~IsDigit(t[i]) THEN NumbersFrom(t, i + 1)
    ELSE <<IntOf(SubSeq(t, i, RunEnd(t, i)))>> \o NumbersFrom(t, RunEnd(t, i) + 1)

FindAllNumbers(t) == NumbersFrom(t, 1)

\* _extract_number
ExtractNumber(t) ==
    IF FindAllNumbers(t) = <<>> THEN 0 ELSE FindAllNumbers(t)[1]

\* (\d+)\s*days? matches the lower-cased text at position i
DaysMatchAt(l, i) ==
    /\ IsDigit(l[i])
    /\ \E m \in (RunEnd(l, i) + 1)..(Len(l) + 1) :
          /\ \A k \in (RunEnd(l, i) + 1)..(m - 1) : IsSpace(l[k])
          /\ m + 2 <= Len(l)
          /\ SubSeq(l, m, m + 2) = <<"d","a","y">>

\* _parse_duration with the day count of an earlier call kept when the text
\* names none
ParseDuration_keepDays(t, info) ==
    LET l == Lower(t)
        hits == {i \in 1..Len(l) : DaysMatchAt(l, i)}
        first == CHOOSE i \in hits : \A h \in hits : i <= h
    IN [info EXCEPT !.duration =
           [display |-> t,
            days |-> IF hits = {} THEN info.duration.days
                     ELSE IntOf(SubSeq(l, first, RunEnd(l, first)))]]

\* _parse_duration
ParseDuration(t, info) ==
    LET l == Lower(t)
        hits == {i \in 1..Len(l) : DaysMatchAt(l, i)}
        first == CHOOSE i \in hits : \A h \in hits : i <= h
    IN [info EXCEPT !.duration =
           [display |-> t,
            days |-> IF hits = {} THEN 0
                     ELSE IntOf(SubSeq(l, first, RunEnd(l, first)))]]

\* _parse_age_range with the maximum of an earlier call kept when the text
\* has one number
ParseAgeRange_keepMax(t, info) ==
    LET n == FindAllNumbers(t)
    IN [info EXCEPT !.age_range =
           [display |-> t,
            min |-> IF Len(n) >= 1 THEN n[1] ELSE 0,
            max |-> IF Len(n) >= 2 THEN n[2]
                    ELSE IF Len(n) = 1 THEN info.age_range.max ELSE 0]]

\* _parse_age_range
ParseAgeRange(t, info) ==
    LET n == FindAllNumbers(t)
    IN [info EXCEPT !.age_range =
           [display |-> t,
            min |-> IF Len(n) >= 1 THEN n[1] ELSE 0,
            max |-> IF Len(n) >= 2 THEN n[2] ELSE 0]]

\* _assign_tour_info_value
AssignTourInfoValue(key, value, info) ==
    LET k == Strip(Lower(key))
    IN IF Contains(k, <<"a","c","t","i","v","i","t","i","e","s">>) /\ Contains(k, <<"n","o">>)
         THEN [info EXCEPT !.num_activities = ExtractNumber(value)]
       ELSE IF Contains(k, <<"m","e","a","l","s">>) /\ Contains(k, <<"n","o">>)
         THEN [info EXCEPT !.num_meals = ExtractNumber(value)]
       ELSE IF Contains(k, <<"o","p","e","r","a","t","o","r">>)
         THEN [info EXCEPT !.operator = value]
       ELSE IF Contains(k, <<"s","t","a","r","t","i","n","g"," ","p","o","i","n","t">>)
         THEN [info EXCEPT !.starting_point = value]
       ELSE IF Contains(k, <<"e","n","d","i","n","g"," ","p","o","i","n","t">>)
         THEN [info EXCEPT !.ending_point = value]
       ELSE IF Contains(k, <<"l","e","n","g","t","h">>)
         THEN ParseDuration(value, info)
       ELSE IF Contains(k, <<"a","g","e">>) /\ Contains(k, <<"a","v","g">>)
         THEN ParseAgeRange(value, info)
       ELSE IF Contains(k, <<"g","r","o","u","p"," ","s","i","z","e">>) /\ Contains(k, <<"a","v","g">>)
         THEN [info EXCEPT !.avg_group_size = value]
       ELSE info

\* the loop over the list-tour-info__item-desc elements, from item i on
RECURSIVE AssignAll(_, _, _)
AssignAll(items, i, info) ==
    IF i > Len(items) THEN info
    ELSE AssignAll(items, i + 1,
                   IF items[i].has_b /\ items[i].has_span
                   THEN AssignTourInfoValue(Strip(items[i].key),
                                            Strip(items[i].value), info)
                   ELSE info)

MinMetaDescription == 50
MinParagraph == 100
MaxParagraph == 1000

BoilerplateWords == {<<"c","o","o","k","i","e">>, <<"p","r","i","v","a","c","y">>, <<"l","i","c","e","n","s","e">>, <<"t","e","r","m","s">>, <<"c","o","p","y","r","i","g","h","t">>}

AcceptableParagraph(t) ==
    /\ Len(t) > MinParagraph
    /\ Len(t) < MaxParagraph
    /\ ~\E w \in BoilerplateWords : Contains(Lower(t), w)

\* _extract_description
ExtractDescription(p, info) ==
    LET hits == {i \in 1..Len(p.paragraphs) :
                     AcceptableParagraph(Strip(p.paragraphs[i]))}
    IN IF p.meta_description.found
          /\ Len(Strip(p.meta_description.text)) > MinMetaDescription
       THEN [info EXCEPT !.description = Strip(p.meta_description.text)]
       ELSE IF hits # {}
       THEN [info EXCEPT !.description =
                Strip(p.paragraphs[CHOOSE i \in hits : \A h \in hits : i <= h])]
       ELSE info

\* _extract_reviews: the first structured-data block that is a dict with an
\* aggregate rating and a review count; a block that fails to load or to
\* convert is skipped
ExtractReviews(p, info) ==
    LET hits == {i \in 1..Len(p.ld_json) :
                     /\ p.ld_json[i].kind = "rating"
                     /\ p.ld_json[i].review_count # 0}
    IN IF hits = {} THEN info
       ELSE [info EXCEPT !.num_reviews =
                p.ld_json[CHOOSE i \in hits : \A h \in hits : i <= h].review_count]

\* the stripped, non-empty texts of the items of a list
ItemTexts(items) ==
    SelectSeq([i \in 1..Len(items) |-> Strip(items[i])], LAMBDA t : t # <<>>)

\* _extract_included_excluded
ExtractIncludedExcluded(p, info) ==
    [info EXCEPT
        !.included_items = @ \o (IF p.tick_list.found
                                 THEN ItemTexts(p.tick_list.items) ELSE <<>>),
        !.excluded_items = @ \o (IF p.cross_list.found
                                 THEN ItemTexts(p.cross_list.items) ELSE <<>>)]

\* a list without its repeated elements, first occurrences kept in order
RECURSIVE Dedupe(_)
Dedupe(s) ==
    IF s = <<>> THEN <<>>
    ELSE LET init == Dedupe(SubSeq(s, 1, Len(s) - 1))
         IN IF \E i \in 1..Len(init) : init[i] = s[Len(s)]
            THEN init ELSE Append(init, s[Len(s)])

\* _extract_activities_included, given the list its selector chain locates
ExtractActivitiesIncluded(p, info) ==
    IF p.activities_list.found /\ Dedupe(ItemTexts(p.activities_list.items)) # <<>>
    THEN [info EXCEPT !.activities_incl = Dedupe(ItemTexts(p.activities_list.items))]
    ELSE info

----------------------------------------------------------------------------
(* _extract_country_from_articles *)

\* known_countries of the URL tier, in order
UrlCountries ==
    <<<<"n","e","w","-","z","e","a","l","a","n","d">>, <<"s","o","u","t","h","-","k","o","r","e","a">>, <<"c","o","s","t","a","-","r","i","c","a">>, <<"s","o","u","t","h","-","a","f","r","i","c","a">>,
      <<"s","r","i","-","l","a","n","k","a">>, <<"t","h","a","i","l","a","n","d">>, <<"p","h","i","l","i","p","p","i","n","e","s">>, <<"v","i","e","t","n","a","m">>, <<"c","a","m","b","o","d","i","a">>,
      <<"i","n","d","o","n","e","s","i","a">>, <<"m","a","l","a","y","s","i","a">>, <<"s","i","n","g","a","p","o","r","e">>, <<"a","u","s","t","r","a","l","i","a">>, <<"c","o","l","o","m","b","i","a">>,
      <<"m","o","r","o","c","c","o">>, <<"i","n","d","i","a">>, <<"j","a","p","a","n">>, <<"b","a","l","i">>, <<"l","a","o","s">>, <<"m","y","a","n","m","a","r">>,
      <<"b","r","u","n","e","i">>, <<"c","r","o","a","t","i","a">>, <<"m","e","x","i","c","o">>, <<"p","e","r","u">>, <<"n","e","p","a","l">>>>

\* known_countries of the direct blog-link tier, in order
BlogCountries ==
    <<<<"t","h","a","i","l","a","n","d">>, <<"b","a","l","i">>, <<"v","i","e","t","n","a","m">>, <<"c","a","m","b","o","d","i","a">>, <<"p","h","i","l","i","p","p","i","n","e","s">>,
      <<"s","r","i","-","l","a","n","k","a">>, <<"i","n","d","i","a">>, <<"l","a","o","s">>, <<"m","y","a","n","m","a","r">>, <<"i","n","d","o","n","e","s","i","a">>,
      <<"m","a","l","a","y","s","i","a">>, <<"s","i","n","g","a","p","o","r","e">>, <<"b","r","u","n","e","i">>, <<"s","o","u","t","h","-","k","o","r","e","a">>,
      <<"n","e","w","-","z","e","a","l","a","n","d">>, <<"c","o","s","t","a","-","r","i","c","a">>, <<"s","o","u","t","h","-","a","f","r","i","c","a">>>>

NonCountries ==
    {<<"r","e","c","o","g","n","i","s","e","d">>, <<"t","o","p">>, <<"g","a","p">>, <<"y","e","a","r">>, <<"p","r","o","v","i","d","e","r">>, <<"o","v","e","r","s","e","a","s">>,
     <<"h","o","t","e","l">>, <<"h","o","s","t","e","l">>, <<"w","e","a","t","h","e","r">>, <<"b","e","s","t">>, <<"t","i","m","e">>, <<"v","i","s","i","t">>,
     <<"n","a","t","i","o","n","a","l">>, <<"p","a","r","k">>, <<"f","l","o","a","t","i","n","g">>, <<"b","u","n","g","a","l","o","w","s">>, <<"t","r","a","i","n">>,
     <<"n","i","g","h","t">>, <<"h","o","m","e">>, <<"i","n","d","e","x">>, <<"m","a","i","n">>, <<"b","l","o","g">>, <<"a","b","o","u","t">>,
     <<"c","o","n","t","a","c","t">>, <<"t","e","r","m","s">>, <<"p","r","i","v","a","c","y">>, <<"b","o","o","k","i","n","g">>}

CityToCountry(t) ==
    IF t \in {<<"b","a","n","g","k","o","k">>, <<"k","a","n","c","h","a","n","a","b","u","r","i">>, <<"k","r","a","b","i">>, <<"p","h","u","k","e","t">>, <<"e","r","a","w","a","n">>,
              <<"k","h","a","o">>, <<"k","o","h">>, <<"a","m","a","p","h","a","w","a">>} THEN <<"t","h","a","i","l","a","n","d">>
    ELSE IF t \in {<<"h","a","n","o","i">>, <<"s","a","i","g","o","n">>, <<"h","o">>} THEN <<"v","i","e","t","n","a","m">>
    ELSE IF t \in {<<"s","i","e","m">>, <<"p","h","n","o","m">>} THEN <<"c","a","m","b","o","d","i","a">>
    ELSE IF t = <<"m","a","n","i","l","a">> THEN <<"p","h","i","l","i","p","p","i","n","e","s">>
    ELSE IF t = <<"j","a","k","a","r","t","a">> THEN <<"i","n","d","o","n","e","s","i","a">>
    ELSE IF t = <<"k","u","a","l","a">> THEN <<"m","a","l","a","y","s","i","a">>
    ELSE IF t = <<"c","o","l","o","m","b","o">> THEN <<"s","r","i","-","l","a","n","k","a">>
    ELSE t

\* str.rstrip('/')
RECURSIVE RStripSlash(_)
RStripSlash(t) ==
    IF t # <<>> /\ t[Len(t)] = "/" THEN RStripSlash(SubSeq(t, 1, Len(t) - 1)) ELSE t

UrlSlug(u) == Lower(Last(SplitOn(RStripSlash(u), "/")))

\* the first element of a list that satisfies a test; 0 if none
FirstIndex(s, Test(_)) ==
    IF \E i \in 1..Len(s) : Test(s[i])
    THEN CHOOSE i \in 1..Len(s) : Test(s[i]) /\ \A j \in 1..(i - 1) : ~Test(s[j])
    ELSE 0

IsWordChar(c) == IsUpper(c) \/ IsLower(c) \/ IsDigit(c) \/ c = "_"

BlogPrefix == <<"/","b","l","o","g","/">>

\* the href matches /blog/\w+ somewhere
IsBlogLink(h) ==
    \E i \in 1..Len(h) :
        /\ i + Len(BlogPrefix) <= Len(h)
        /\ Lower(SubSeq(h, i, i + Len(BlogPrefix) - 1)) = BlogPrefix
        /\ IsWordChar(h[i + Len(BlogPrefix)])

\* group 1 of the leftmost match of /blog/([^-/]+) in the href, lower-cased;
\* the empty text when there is no match
BlogToken(h) ==
    LET hits == {i \in 1..Len(h) :
                    /\ i + Len(BlogPrefix) <= Len(h)
                    /\ Lower(SubSeq(h, i, i + Len(BlogPrefix) - 1)) = BlogPrefix
                    /\ h[i + Len(BlogPrefix)] \notin {"-", "/"}}
        s == (CHOOSE i \in hits : \A x \in hits : i <= x) + Len(BlogPrefix)
        e == CHOOSE k \in s..Len(h) :
                 /\ \A j \in s..k : h[j] \notin {"-", "/"}
                 /\ (k = Len(h) \/ h[k + 1] \in {"-", "/"})
    IN IF hits = {} THEN <<>> ELSE Lower(SubSeq(h, s, e))

MinCountryToken == 2

\* a blog link the third tier accepts
AcceptedBlogLink(h) ==
    /\ IsBlogLink(h)
    /\ BlogToken(h) # <<>>
    /\ BlogToken(h) \notin NonCountries
    /\ Len(BlogToken(h)) > MinCountryToken

\* the tiers with the direct blog links consulted before the URL
ExtractCountry_linksFirst(u, links) ==
    LET k1 == FirstIndex(UrlCountries, LAMBDA c : Contains(UrlSlug(u), c))
        k2 == FirstIndex(BlogCountries, LAMBDA c :
                  \E i \in 1..Len(links) : Contains(Lower(links[i]), BlogPrefix \o c))
        k3 == FirstIndex(links, AcceptedBlogLink)
    IN IF k2 # 0 THEN BlogCountries[k2]
       ELSE IF k1 # 0 THEN UrlCountries[k1]
       ELSE IF k3 # 0 THEN CityToCountry(BlogToken(links[k3]))
       ELSE <<>>

\* the country the three tiers leave in tour_data['country']
ExtractCountry(u, links) ==
    LET k1 == FirstIndex(UrlCountries, LAMBDA c : Contains(UrlSlug(u), c))
        k2 == FirstIndex(BlogCountries, LAMBDA c :
                  \E i \in 1..Len(links) : Contains(Lower(links[i]), BlogPrefix \o c))
        k3 == FirstIndex(links, AcceptedBlogLink)
    IN IF k1 # 0 THEN UrlCountries[k1]
       ELSE IF k2 # 0 THEN BlogCountries[k2]
       ELSE IF k3 # 0 THEN CityToCountry(BlogToken(links[k3]))
       ELSE <<>>

----------------------------------------------------------------------------
(* _extract_seo_data *)

\* the assignments of _extract_seo_data that are made before step n fails
\* (n = 4: none fails)
ExtractSeoData(p, seo, n) ==
    [meta_title |-> IF n >= 1 /\ p.title.found
                    THEN Strip(p.title.text) ELSE seo.meta_title,
     meta_description |-> IF n >= 2 /\ p.meta_description.found
                          THEN Strip(p.meta_description.text)
                          ELSE seo.meta_description,
     meta_keywords |-> IF n >= 3 /\ p.meta_keywords.found
                       THEN Strip(p.meta_keywords.text) ELSE seo.meta_keywords,
     open_graph |-> IF n >= 4 THEN p.open_graph ELSE seo.open_graph]

SeoSteps == 4

----------------------------------------------------------------------------
(* _extract_tour_colour *)

\* css_color_mappings, in insertion order
ColourNames ==
    <<<<"m","a","g","e","n","t","a">>, <<"l","i","g","h","t","p","i","n","k">>, <<"b","u","r","g","u","n","d","y">>, <<"p","u","r","p","l","e">>, <<"o","r","a","n","g","e">>,
      <<"b","l","u","e">>, <<"b","l","u","e","2">>, <<"g","r","e","e","n">>, <<"g","r","e","e","n","2">>, <<"g","r","e","e","n","3">>, <<"r","e","d">>,
      <<"r","e","d","2">>, <<"y","e","l","l","o","w">>, <<"n","a","v","y","b","l","u","e">>, <<"o","r","a","n","g","e","b","l","o","o","d">>, <<"b","l","u","r","p","l","e">>>>

ColourHex ==
    <<"a03a68", "f978d5", "ae2e69", "6c49ff", "ffc132", "36e0dc", "3d90f4",
      "0fba68", "269d73", "36e0a4", "f50000", "ea1f3d", "ffaf3b", "402df7",
      "ff603b", "f94171">>

NumColours == Len(ColourNames)

PrioritySelectors ==
    <<<<"c","i","r","c","l","e","-","f","b","-","r","a","t","e","-","-">>, <<"l","-","s","u","b","m","e","n","u","-","-">>, <<"b","g","-">>, <<"c","o","l","o","r","-">>>>

NotAvailable == "N/A"

HexValue(k) == "#" \o ColourHex[k]

\* all classes of all elements that carry a class, in document order
AllClasses(elements) == Flatten(elements)

\* some class of some element contains prefix + colour name
PriorityHit(elements, s, k) ==
    \E i \in 1..Len(AllClasses(elements)) :
        Contains(Lower(AllClasses(elements)[i]), PrioritySelectors[s] \o ColourNames[k])

\* the (selector, colour) pairs in the order the two nested loops visit them
PriorityOrder ==
    [n \in 1..(Len(PrioritySelectors) * NumColours) |->
        <<((n - 1) \div NumColours) + 1, ((n - 1) % NumColours) + 1>>]

\* sorted(css_color_mappings.keys(), key=len, reverse=True): longer names
\* first, names of equal length in insertion order
SortedColours ==
    SortSeq([k \in 1..NumColours |-> k],
            LAMBDA a, b : \/ Len(ColourNames[a]) > Len(ColourNames[b])
                          \/ /\ Len(ColourNames[a]) = Len(ColourNames[b])
                             /\ a < b)

\* the class names the colour
ClassNamesColour(cls, k) ==
    \/ Contains(Lower(cls), <<"-">> \o ColourNames[k])
    \/ Contains(Lower(cls), <<"-", "-">> \o ColourNames[k])
    \/ EndsWith(Lower(cls), ColourNames[k])

\* the colour a class is counted for: the first of SortedColours that it
\* names; 0 if none
ColourOfClass(cls) ==
    LET n == FirstIndex(SortedColours, LAMBDA k : ClassNamesColour(cls, k))
    IN IF n = 0 THEN 0 ELSE SortedColours[n]

\* color_counts[k]
ColourCount(classes, k) ==
    Cardinality({i \in 1..Len(classes) : ColourOfClass(classes[i]) = k})

\* the position at which a colour enters color_counts
FirstCounted(classes, k) ==
    CHOOSE i \in 1..Len(classes) :
        ColourOfClass(classes[i]) = k /\ \A j \in 1..(i - 1) : ColourOfClass(classes[j]) # k

\* max(color_counts, key=color_counts.get): the highest count, the colour
\* counted first among equals
DominantColour(classes) ==
    LET counted == {k \in 1..NumColours : ColourCount(classes, k) > 0}
    IN CHOOSE k \in counted :
          \A o \in counted \ {k} :
              \/ ColourCount(classes, k) > ColourCount(classes, o)
              \/ /\ ColourCount(classes, k) = ColourCount(classes, o)
                 /\ FirstCounted(classes, k) < FirstCounted(classes, o)

\* the value left when the count of the classes is taken before the
\* priority classes are looked for
ExtractTourColour_countFirst(elements) ==
    LET n == FirstIndex(PriorityOrder,
                        LAMBDA sk : PriorityHit(elements, sk[1], sk[2]))
        classes == AllClasses(elements)
    IN IF \E i \in 1..Len(classes) : ColourOfClass(classes[i]) # 0
       THEN HexValue(DominantColour(classes))
       ELSE IF n # 0 THEN HexValue(PriorityOrder[n][2])
       ELSE NotAvailable

\* the value _extract_tour_colour leaves in tour_data['tour_colour']
ExtractTourColour(elements) ==
    LET n == FirstIndex(PriorityOrder,
                        LAMBDA sk : PriorityHit(elements, sk[1], sk[2]))
        classes == AllClasses(elements)
    IN IF n # 0 THEN HexValue(PriorityOrder[n][2])
       ELSE IF \E i \in 1..Len(classes) : ColourOfClass(classes[i]) # 0
            THEN HexValue(DominantColour(classes))
       ELSE NotAvailable

----------------------------------------------------------------------------
(* _extract_detailed_itinerary *)

DayWord == <<"d","a","y"," ">>

\* group 1 of the leftmost match of Day (\d+) in the text, ignoring case;
\* the empty text when there is no match
DayNumber(t) ==
    LET hits == {i \in 1..Len(t) :
                    /\ i + Len(DayWord) <= Len(t)
                    /\ Lower(SubSeq(t, i, i + Len(DayWord) - 1)) = DayWord
                    /\ IsDigit(t[i + Len(DayWord)])}
        s == (CHOOSE i \in hits : \A x \in hits : i <= x) + Len(DayWord)
    IN IF hits = {} THEN <<>> ELSE SubSeq(t, s, RunEnd(t, s))

\* [x.strip() for x in value.split(',')]
SplitList(value) ==
    LET parts == SplitOn(value, ",")
    IN [i \in 1..Len(parts) |-> Strip(parts[i])]

\* the values of the labelled items of a card whose label contains the word
RECURSIVE LabelledValues(_, _)
LabelledValues(items, kind) ==
    IF items = <<>> THEN <<>>
    ELSE (IF Head(items).has_b /\ Head(items).has_span
             /\ kind = (LET k == Lower(Strip(Head(items).key))
                        IN IF Contains(k, <<"m","e","a","l","s"," ","i","n","c","l","u","d","e","d">>) THEN "meals"
                           ELSE IF Contains(k, <<"a","c","t","i","v","i","t","i","e","s"," ","i","n","c","l","u","d","e","d">>) THEN "activities"
                           ELSE IF Contains(k, <<"r","o","o","m"," ","t","y","p","e">>) THEN "room"
                           ELSE "other")
          THEN <<Strip(Head(items).value)>> ELSE <<>>)
         \o LabelledValues(Tail(items), kind)

\* the entry a day card contributes
DayEntry(card) ==
    [title |-> IF card.title.found THEN Strip(card.title.text) ELSE <<>>,
     desc |-> IF card.desc.found THEN Strip(card.desc.text) ELSE <<>>,
     meals_incl |->
        LET v == LabelledValues(card.items, "meals")
        IN Flatten([i \in 1..Len(v) |-> SplitList(v[i])]),
     roomtype |->
        LET v == LabelledValues(card.items, "room")
        IN IF v = <<>> THEN <<>> ELSE Last(v),
     activities_incl |->
        LET v == LabelledValues(card.items, "activities")
        IN Flatten([i \in 1..Len(v) |-> SplitList(v[i])])]

\* a card is included when it has a day span with a Day N marker
CardCounts(card) == card.has_day_span /\ DayNumber(Strip(card.day_text)) # <<>>

\* the itinerary after the cards from i on are processed; a later card with
\* the same day number replaces an earlier one
RECURSIVE ExtractItinerary(_, _, _)
ExtractItinerary(cards, i, itin) ==
    IF i > Len(cards) THEN itin
    ELSE ExtractItinerary(cards, i + 1,
            IF CardCounts(cards[i])
            THEN LET key == DayNumber(Strip(cards[i].day_text))
                 IN [k \in DOMAIN itin \cup {key} |->
                        IF k = key THEN DayEntry(cards[i]) ELSE itin[k]]
            ELSE itin)

----------------------------------------------------------------------------
(* _extract_tour_dates *)

\* a display text is a sequence of tokens, written with one space between
\* two tokens
RECURSIVE JoinTokens(_)
JoinTokens(toks) ==
    IF toks = <<>> THEN <<>>
    ELSE IF Len(toks) = 1 THEN toks[1]
    ELSE toks[1] \o <<" ">> \o JoinTokens(Tail(toks))

AllDigits(tok) == tok # <<>> /\ \A i \in 1..Len(tok) : IsDigit(tok[i])
AllWord(tok) == tok # <<>> /\ \A i \in 1..Len(tok) : IsWordChar(tok[i])

\* the longest prefix / suffix of a token made of digits
LeadingDigits(tok) ==
    IF tok # <<>> /\ IsDigit(tok[1]) THEN SubSeq(tok, 1, RunEnd(tok, 1)) ELSE <<>>
TrailingDigits(tok) ==
    LET starts == {i \in 1..Len(tok) : \A k \in i..Len(tok) : IsDigit(tok[k])}
    IN IF starts = {} THEN <<>>
       ELSE SubSeq(tok, CHOOSE i \in starts : \A s \in starts : i <= s, Len(tok))

Dash == <<"-">>

\* re.match(r'\d+ \w+ - \d+ \w+ \d+', text): the pattern at the start
IsDateRange(toks) ==
    /\ Len(toks) >= 6
    /\ AllDigits(toks[1])
    /\ AllWord(toks[2])
    /\ toks[3] = Dash
    /\ AllDigits(toks[4])
    /\ AllWord(toks[5])
    /\ LeadingDigits(toks[6]) # <<>>

BookNow == <<<<"B","o","o","k">>, <<"N","o","w">>>>
NoAvailability == <<<<"N","o">>, <<"A","v","a","i","l","a","b","i","l","i","t","y">>>>
Limited == <<<<"L","i","m","i","t","e","d">>>>
Available == <<<<"A","v","a","i","l","a","b","l","e">>>>

\* row.get_text().lower()
RowText(row) == Lower(JoinTokens(row.cell) \o row.rest)

\* the availability of a table row, with the 'limited' rule tried first
RowAvailability_limitedFirst(row) ==
    LET t == RowText(row)
    IN IF Contains(t, <<"l","i","m","i","t","e","d">>) THEN Limited
       ELSE IF Contains(t, <<"b","o","o","k"," ","n","o","w">>) \/ Contains(t, <<"a","v","a","i","l","a","b","l","e">>) THEN BookNow
       ELSE IF Contains(t, <<"n","o"," ","a","v","a","i","l","a","b","i","l","i","t","y">>) \/ Contains(t, <<"f","u","l","l">>)
               \/ Contains(t, <<"s","o","l","d"," ","o","u","t">>) THEN NoAvailability
       ELSE Available

\* the availability of a table row, by the keywords of its text
RowAvailability(row) ==
    LET t == RowText(row)
    IN IF Contains(t, <<"b","o","o","k"," ","n","o","w">>) \/ Contains(t, <<"a","v","a","i","l","a","b","l","e">>) THEN BookNow
       ELSE IF Contains(t, <<"n","o"," ","a","v","a","i","l","a","b","i","l","i","t","y">>) \/ Contains(t, <<"f","u","l","l">>)
               \/ Contains(t, <<"s","o","l","d"," ","o","u","t">>) THEN NoAvailability
       ELSE IF Contains(t, <<"l","i","m","i","t","e","d">>) THEN Limited
       ELSE Available

\* f"{date_text} - {availability}"
DateEntry(dateToks, availability) == dateToks \o <<Dash>> \o availability

\* the entries of the table rows
RECURSIVE TableEntries(_)
TableEntries(rows) ==
    IF rows = <<>> THEN <<>>
    ELSE (IF Head(rows).has_td /\ IsDateRange(Head(rows).cell)
          THEN <<DateEntry(Head(rows).cell, RowAvailability(Head(rows)))>>
          ELSE <<>>) \o TableEntries(Tail(rows))

\* the pattern matches the text from token i on, its first number ending
\* token i and its last number starting token i + 5
RangeAt(toks, i) ==
    /\ i + 5 <= Len(toks)
    /\ TrailingDigits(toks[i]) # <<>>
    /\ AllWord(toks[i + 1])
    /\ toks[i + 2] = Dash
    /\ AllDigits(toks[i + 3])
    /\ AllWord(toks[i + 4])
    /\ LeadingDigits(toks[i + 5]) # <<>>

\* re.findall(r'\d+ \w+ - \d+ \w+ \d+', page_text), from token i on
RECURSIVE FindRanges(_, _)
FindRanges(toks, i) ==
    IF i > Len(toks) THEN <<>>
    ELSE IF RangeAt(toks, i)
    THEN LET rest == SubSeq(toks[i + 5], Len(LeadingDigits(toks[i + 5])) + 1,
                            Len(toks[i + 5]))
         IN <<<<TrailingDigits(toks[i]), toks[i + 1], Dash, toks[i + 3],
                toks[i + 4], LeadingDigits(toks[i + 5])>>>>
            \o FindRanges([toks EXCEPT ![i + 5] = rest], i + 5)
    ELSE FindRanges(toks, i + 1)

\* the entries of the free-text scan, all Available
TextEntries(toks) ==
    LET found == FindRanges(toks, 1)
    IN [i \in 1..Len(found) |-> DateEntry(found[i], Available)]

\* the list built from the fragment, repeated entries kept
DatesFromFragment_keepAll(frag) ==
    LET table == TableEntries(frag.rows)
    IN IF table # <<>> THEN table ELSE TextEntries(frag.text)

\* the list built from the html fragment of the dates response
DatesFromFragment(frag) ==
    LET table == TableEntries(frag.rows)
        entries == IF table # <<>> THEN table ELSE TextEntries(frag.text)
    IN Dedupe(entries)

\* the starting_dates left when a response without an 'html' field is
\* parsed all the same
ExtractTourDates_noHtmlCheck(d, idFetch, apiFetch) ==
    IF idFetch # "ok" \/ ~d.numeric_id_found THEN <<>>
    ELSE IF apiFetch # "ok" THEN <<>>
    ELSE IF ~d.is_json THEN <<>>
    ELSE DatesFromFragment(d)

\* the starting_dates _extract_tour_dates leaves, given what its two
\* requests did
ExtractTourDates(d, idFetch, apiFetch) ==
    IF idFetch # "ok" \/ ~d.numeric_id_found THEN <<>>
    ELSE IF apiFetch # "ok" THEN <<>>
    ELSE IF ~d.is_json THEN <<>>
    ELSE IF ~d.has_html THEN <<>>
    ELSE DatesFromFragment(d)

----------------------------------------------------------------------------
(* _validate_and_clean_data *)

Brekfast == <<"B","r","e","k","f","a","s","t">>
Breakfast == <<"B","r","e","a","k","f","a","s","t">>

\* the correction applied to every element that holds the misspelling
FixMeals_anywhere(meals) ==
    [i \in 1..Len(meals) |->
        IF Contains(meals[i], Brekfast) THEN Breakfast ELSE meals[i]]

\* the correction of the known misspelling in one meals list
FixMeals(meals) ==
    [i \in 1..Len(meals) |-> IF meals[i] = Brekfast THEN Breakfast ELSE meals[i]]

IsCased(c) == IsUpper(c) \/ IsLower(c)

\* str.title()
Title(t) ==
    [i \in 1..Len(t) |->
        IF i = 1 \/ ~IsCased(t[i - 1]) THEN UpperChar(t[i]) ELSE LowerChar(t[i])]

\* the name derived from the URL, in the case of the URL
NameFromUrl_asWritten(u) == ReplaceChar(Last(SplitOn(u, "/")), "-", " ")

\* the name derived from the URL
NameFromUrl(u) == Title(ReplaceChar(Last(SplitOn(u, "/")), "-", " "))

\* a price field after the validation pass
CleanPrice(v) == IF IsNone(v) THEN Some(0) ELSE v

ValidateAndCleanData(td) ==
    [td EXCEPT
        !.itinerary = [k \in DOMAIN td.itinerary |->
                          [td.itinerary[k] EXCEPT !.meals_incl = FixMeals(@)]],
        !.tour_name = IF td.tour_name = <<>> THEN NameFromUrl(td.url) ELSE @,
        !.starting_dates = IF td.starting_dates = <<>> THEN <<>> ELSE @,
        !.price = [c \in DOMAIN td.price |-> CleanPrice(td.price[c])]]

----------------------------------------------------------------------------
(* Inputs: URLs, run dates and the documents the site serves *)

URLs == {<<"h","t","t","p","s",":","/","/","b","t",".","c","o","m","/","t","/","b","a","l","i","-","t","r","i","p">>,
         <<"h","t","t","p","s",":","/","/","b","t",".","c","o","m","/","t","/","s","r","i","-","l","a","n","k","a","/">>}

RunDates == {<<"2","0","2","5","-","1","0","-","0","1">>, <<"2","0","2","5","-","1","0","-","0","2">>}

Absent == [found |-> FALSE, text |-> <<>>]
Elem(t) == [found |-> TRUE, text |-> t]
NoList == [found |-> FALSE, items |-> <<>>]
Item(k, v) == [has_b |-> TRUE, has_span |-> TRUE, key |-> k, value |-> v]
Price(sign, number) == [sign |-> sign, number |-> number]

NoDates ==
    [numeric_id_found |-> FALSE, is_json |-> FALSE, has_html |-> FALSE,
     rows |-> <<>>, text |-> <<>>]

\* a tour page with a hero heading, tour facts, one day card, a dates table
\* and prices shown with the signs the patterns expect
RichPage ==
    [h1 |-> <<Elem(<<" ","B","a","l","i"," ","T","r","i","p"," ">>), Absent, Absent, Absent, Absent, Absent,
              Elem(<<"T","o","u","r","s">>)>>,
     title |-> Elem(<<"B","a","l","i"," ","T","r","i","p"," ","|"," ","B","a","c","k","p","a","c","k","i","n","g"," ","T","o","u","r","s">>),
     meta_description |-> Elem(<<"I","s","l","a","n","d"," ","h","o","p","p","i","n","g"," ">> \o Filler(40)),
     meta_keywords |-> Elem(<<"b","a","l","i">>),
     open_graph |-> <<<<"t","i","t","l","e">>>>,
     info_items |-> <<Item(<<"L","e","n","g","t","h">>, <<"8"," ","d","a","y","s">>),
                      Item(<<"A","v","g","."," ","a","g","e">>, <<"1","8","-","3","5">>),
                      Item(<<"N","o","."," ","o","f"," ","a","c","t","i","v","i","t","i","e","s">>, <<"1","2">>)>>,
     paragraphs |-> <<>>,
     ld_json |-> <<[kind |-> "malformed", review_count |-> 0],
                   [kind |-> "rating", review_count |-> 41]>>,
     tick_list |-> [found |-> TRUE, items |-> <<<<"G","u","i","d","e">>, <<" ">>>>],
     cross_list |-> [found |-> TRUE, items |-> <<<<"F","l","i","g","h","t","s">>>>],
     activities_list |-> [found |-> TRUE,
                          items |-> <<<<"S","u","r","f">>, <<"H","i","k","e">>, <<"S","u","r","f">>>>],
     links |-> <<<<"/","b","l","o","g","/","b","a","l","i","-","g","u","i","d","e">>>>,
     elements |-> <<<<<<"c","a","r","d">>, <<"b","g","-","b","l","u","e","2">>>>, <<<<"b","t","n","-","-","g","r","e","e","n">>>>>>,
     cards |-> <<[has_day_span |-> TRUE, day_text |-> <<"D","a","y"," ","1">>,
                  title |-> Elem(<<"A","r","r","i","v","e">>), desc |-> Absent,
                  items |-> <<Item(<<"M","e","a","l","s"," ","i","n","c","l","u","d","e","d">>, <<"B","r","e","k","f","a","s","t",","," ","L","u","n","c","h">>),
                              Item(<<"R","o","o","m"," ","t","y","p","e">>, <<"D","o","r","m">>)>>]>>,
     dates |-> [numeric_id_found |-> TRUE, is_json |-> TRUE, has_html |-> TRUE,
                rows |-> <<[has_td |-> TRUE,
                            cell |-> <<<<"6">>, <<"O","c","t">>, Dash, <<"1","9">>, <<"O","c","t">>, <<"2","0","2","5">>>>,
                            rest |-> <<" ","B","o","o","k"," ","N","o","w">>],
                           [has_td |-> TRUE,
                            cell |-> <<<<"3">>, <<"N","o","v">>, Dash, <<"1","6">>, <<"N","o","v">>, <<"2","0","2","5">>>>,
                            rest |-> <<" ","S","o","l","d"," ","O","u","t">>]>>,
                text |-> <<>>],
     shown |-> [c \in CurrencySet |->
                  IF c = "USD" THEN <<Price("$", <<"1",",","2","0","0">>), Price("$", <<"9","5","0">>)>>
                  ELSE IF c = "NZD" THEN <<Price("$", <<"2",",","0","0","0">>)>>
                  ELSE IF c = "GBP" THEN <<Price("U+00C2 U+00A3", <<"8","0","0">>)>>
                  ELSE IF c = "EUR" THEN <<Price("U+00E2 U+201A U+00AC", <<"9","0","0">>)>>
                  ELSE IF c = "CAD" THEN <<Price("$", <<"1",",","5","0","0">>), Price("$", <<"2","5","0">>)>>
                  ELSE <<Price("$", <<"1",",","7","0","0">>)>>]]

\* a page with nothing but a generic heading; its prices are below the floor
\* or carry signs the patterns do not look for
PoorPage ==
    [h1 |-> <<Absent, Absent, Absent, Absent, Absent, Absent, Elem(<<"T","o","u","r","s">>)>>,
     title |-> Elem(<<"H","o","m","e">>),
     meta_description |-> Absent,
     meta_keywords |-> Absent,
     open_graph |-> <<>>,
     info_items |-> <<>>,
     paragraphs |-> <<<<"W","e"," ","u","s","e"," ","c","o","o","k","i","e","s"," ">> \o Filler(100)>>,
     ld_json |-> <<>>,
     tick_list |-> NoList,
     cross_list |-> NoList,
     activities_list |-> NoList,
     links |-> <<<<"/","b","l","o","g","/","t","r","a","v","e","l","-","t","i","p","s">>>>,
     elements |-> <<>>,
     cards |-> <<>>,
     dates |-> NoDates,
     shown |-> [c \in CurrencySet |->
                  IF c = "GBP" THEN <<Price("U+00A3", <<"8","0","0">>)>>
                  ELSE IF c = "EUR" THEN <<Price("U+20AC", <<"9","0","0">>)>>
                  ELSE IF c = "USD" THEN <<Price("$", <<"2","5","0">>)>>
                  ELSE <<>>]]

Pages == {RichPage, PoorPage}

NoPage == [found |-> FALSE]

----------------------------------------------------------------------------
(* extract_tour_data, step by step *)

NoResult == [pending |-> TRUE]

FetchFailures == {"transport_error", "timeout", "http_error"}

Pending == [state |-> "pending", price |-> 0, paused |-> FALSE]

\* a failure may be injected while the budget of the call lasts
MayFail == faults < MaxFaults

\* the call: the initial record is built
Start ==
    /\ pc \in {"idle", "done"}
    /\ \E u \in URLs, d \in RunDates :
          /\ url' = u
          /\ today' = d
          /\ tour_data' = NewTourData(u, d)
    /\ pc' = "fetch"
    /\ page' = NoPage
    /\ result' = NoResult
    /\ ran' = <<>>
    /\ cur' = 1
    /\ attempts' = [c \in CurrencySet |-> Pending]
    /\ faults' = 0
    /\ UNCHANGED <<session, remembered>>
    /\ UNCHANGED mergeVars

\* the handler of the outer try: the call returns the error form
Abort(e) ==
    /\ result' = ErrorResult(url, e)
    /\ pc' = "done"

\* the page fetch with the default currency, and the id of the tour
Fetch ==
    /\ pc = "fetch"
    /\ \/ \E p \in Pages :
             /\ page' = p
             /\ tour_data' = [tour_data EXCEPT !.tour_id = GenerateTourId(url)]
             /\ pc' = "tour_information"
             /\ UNCHANGED <<result, faults>>
       \/ \E e \in FetchFailures :
             /\ MayFail
             /\ faults' = faults + 1
             /\ Abort(e)
             /\ UNCHANGED <<page, tour_data>>
    /\ UNCHANGED <<url, ran, cur, session, attempts, today, remembered>>
    /\ UNCHANGED mergeVars

\* _extract_tour_information: the name chain and the country inference
\* handle their own errors, the other parts do not
ExtractTourInformation ==
    /\ pc = "tour_information"
    /\ ran' = Append(ran, "tour_information")
    /\ \/ \E countryFails \in BOOLEAN :
             /\ countryFails => MayFail
             /\ faults' = IF countryFails THEN faults + 1 ELSE faults
             /\ tour_data' =
                  [tour_data EXCEPT
                     !.tour_name = ExtractTourName(page),
                     !.tour_information =
                         ExtractActivitiesIncluded(page,
                           ExtractIncludedExcluded(page,
                             ExtractReviews(page,
                               ExtractDescription(page,
                                 AssignAll(page.info_items, 1, @))))),
                     !.country = IF countryFails THEN <<>>
                                 ELSE ExtractCountry(url, page.links)]
             /\ pc' = "seo_data"
             /\ UNCHANGED result
       \/ /\ MayFail
          /\ faults' = faults + 1
          /\ tour_data' = [tour_data EXCEPT !.tour_name = ExtractTourName(page)]
          /\ Abort("tour_information_error")
    /\ UNCHANGED <<url, page, cur, session, attempts, today, remembered>>
    /\ UNCHANGED mergeVars

\* _extract_seo_data: an error ends it with the assignments made so far
ExtractSeo ==
    /\ pc = "seo_data"
    /\ ran' = Append(ran, "seo_data")
    /\ \E n \in 0..SeoSteps :
          /\ n < SeoSteps => MayFail
          /\ faults' = IF n < SeoSteps THEN faults + 1 ELSE faults
          /\ tour_data' = [tour_data EXCEPT
                              !.seo_data = ExtractSeoData(page, @, n)]
    /\ pc' = "tour_colour"
    /\ UNCHANGED <<url, page, result, cur, session, attempts, today, remembered>>
    /\ UNCHANGED mergeVars

\* _extract_tour_colour: an error leaves the sentinel
ExtractColour ==
    /\ pc = "tour_colour"
    /\ ran' = Append(ran, "tour_colour")
    /\ \E fails \in BOOLEAN :
          /\ fails => MayFail
          /\ faults' = IF fails THEN faults + 1 ELSE faults
          /\ tour_data' = [tour_data EXCEPT
                              !.tour_colour = IF fails THEN NotAvailable
                                              ELSE ExtractTourColour(page.elements)]
    /\ pc' = "itinerary"
    /\ UNCHANGED <<url, page, result, cur, session, attempts, today, remembered>>
    /\ UNCHANGED mergeVars

\* _extract_detailed_itinerary: it has no handler of its own; the cards
\* before the failing one are already stored
ExtractItineraryStep ==
    /\ pc = "itinerary"
    /\ ran' = Append(ran, "itinerary")
    /\ \/ /\ tour_data' = [tour_data EXCEPT
                              !.itinerary = ExtractItinerary(page.cards, 1, @)]
          /\ pc' = "starting_dates"
          /\ UNCHANGED <<result, faults>>
       \/ /\ MayFail
          /\ faults' = faults + 1
          /\ UNCHANGED tour_data
          /\ Abort("itinerary_error")
    /\ UNCHANGED <<url, page, cur, session, attempts, today, remembered>>
    /\ UNCHANGED mergeVars

RequestOutcomes == {"ok", "raise"}

\* _extract_tour_dates: any error leaves the empty list
ExtractDates ==
    /\ pc = "starting_dates"
    /\ ran' = Append(ran, "starting_dates")
    /\ \E idFetch \in RequestOutcomes, apiFetch \in RequestOutcomes :
          /\ (idFetch = "raise" \/ apiFetch = "raise") => MayFail
          /\ idFetch = "raise" => apiFetch = "ok"
          /\ faults' = IF idFetch = "raise" \/ apiFetch = "raise"
                       THEN faults + 1 ELSE faults
          /\ tour_data' = [tour_data EXCEPT
                              !.starting_dates =
                                  ExtractTourDates(page.dates, idFetch, apiFetch)]
    /\ pc' = "price"
    /\ UNCHANGED <<url, page, result, cur, session, attempts, today, remembered>>
    /\ UNCHANGED mergeVars

SwitchOutcomes == {"ok", "rejected", "raise"}
PageOutcomes == {"ok", "error_page", "raise"}

\* the currency whose prices the server shows after the switch request
SessionAfter(s, c, switch) == IF switch = "ok" THEN c ELSE s

\* the price-bearing elements of the response to the page request
ElementsServed(p, s, fetch) == IF fetch = "ok" THEN p.shown[s] ELSE <<>>

\* if price: tour_data['price'][f'price_{currency}'] = price
StorePrice(prices, c, price) ==
    IF price # 0 THEN [prices EXCEPT ![c] = Some(price)] ELSE prices

\* the loop goes on to the next currency when the handler has run
NextCurrency_break(i, failed) == IF failed THEN Len(Currencies) + 1 ELSE i + 1

\* the index of the currency the loop goes on with, after an iteration
\* that ended normally or in its handler
NextCurrency(i, failed) == i + 1

\* time.sleep(0.3) is the last statement of the try block: it runs when
\* neither request raised, and is skipped when the handler runs
Slept(failed) == ~failed

\* one iteration of the loop of _extract_all_currency_prices: the switch
\* request, the page request, the price scan and the pause; an exception
\* of either request ends the iteration in its handler
PriceIteration(limit) ==
    /\ pc = "price"
    /\ cur <= Len(Currencies)
    /\ ran' = IF cur = 1 THEN Append(ran, "price") ELSE ran
    /\ LET c == Currencies[cur] IN
       \E switch \in SwitchOutcomes, fetch \in PageOutcomes :
          LET nfaults == (IF switch # "ok" THEN 1 ELSE 0)
                         + (IF switch # "raise" /\ fetch # "ok" THEN 1 ELSE 0)
              failed == switch = "raise" \/ fetch = "raise"
              s == SessionAfter(session, c, switch)
              price == ExtractPriceForCurrency(ElementsServed(page, s, fetch), c)
          IN /\ switch = "raise" => fetch = "ok"
             /\ faults + nfaults <= limit
             /\ faults' = faults + nfaults
             /\ session' = IF switch = "raise" THEN session ELSE s
             /\ tour_data' = IF failed THEN tour_data
                             ELSE [tour_data EXCEPT !.price = StorePrice(@, c, price)]
             /\ attempts' = [attempts EXCEPT ![c] =
                               IF switch = "raise"
                               THEN [state |-> "switch_error", price |-> 0,
                                     paused |-> Slept(failed)]
                               ELSE IF fetch = "raise"
                               THEN [state |-> "fetch_error", price |-> 0,
                                     paused |-> Slept(failed)]
                               ELSE [state |-> "scanned", price |-> price,
                                     paused |-> Slept(failed)]]
             /\ cur' = NextCurrency(cur, failed)
             /\ pc' = IF NextCurrency(cur, failed) > Len(Currencies)
                      THEN "validate" ELSE "price"
    /\ UNCHANGED <<url, page, result, today, remembered>>
    /\ UNCHANGED mergeVars

PriceStep == PriceIteration(MaxFaults)

\* what is kept of a returned record for comparison with a later one
Memo(r) == [url |-> r.url, tour_id |-> r.tour_id, last_updated |-> r.last_updated]

\* _validate_and_clean_data and the return of the record; the pass has no
\* handler of its own
ValidateAndReturn ==
    /\ pc = "validate"
    /\ ran' = Append(ran, "validate")
    /\ \/ /\ tour_data' = ValidateAndCleanData(tour_data)
          /\ result' = ValidateAndCleanData(tour_data)
          /\ pc' = "done"
          /\ remembered' \in IF IsNone(remembered)
                             THEN {remembered, Some(Memo(tour_data))}
                             ELSE {remembered}
          /\ UNCHANGED faults
       \/ /\ MayFail
          /\ faults' = faults + 1
          /\ UNCHANGED <<tour_data, remembered>>
          /\ Abort("validation_error")
    /\ UNCHANGED <<url, page, cur, session, attempts, today>>
    /\ UNCHANGED mergeVars


----------------------------------------------------------------------------
(* merge_csv_data.py: dates *)

IsLeap(y) == (y % 4 = 0 /\ y % 100 # 0) \/ y % 400 = 0

DaysIn(m, y) ==
    IF m = 2 THEN (IF IsLeap(y) THEN 29 ELSE 28)
    ELSE IF m \in {4, 6, 9, 11} THEN 30 ELSE 31

\* datetime(y, m, d) exists
ValidDate(y, m, d) ==
    /\ y >= 1
    /\ m \in 1..12
    /\ d >= 1
    /\ d <= DaysIn(m, y)

MkDate(y, m, d) == [y |-> y, m |-> m, d |-> d]

\* the %d directive: one or two digits, 1 to 31
DayOf(tok) ==
    LET n == IntOf(tok)
    IN IF AllDigits(tok) /\ Len(tok) <= 2 /\ n \in 1..31 THEN n ELSE 0

\* the %m directive: one or two digits, 1 to 12
MonthNumberOf(tok) ==
    LET n == IntOf(tok)
    IN IF AllDigits(tok) /\ Len(tok) <= 2 /\ n \in 1..12 THEN n ELSE 0

\* the %Y directive: four digits
YearOf(tok) ==
    IF AllDigits(tok) /\ Len(tok) = 4 THEN IntOf(tok) ELSE 0

MonthAbbr == <<<<"j","a","n">>, <<"f","e","b">>, <<"m","a","r">>, <<"a","p","r">>, <<"m","a","y">>, <<"j","u","n">>,
               <<"j","u","l">>, <<"a","u","g">>, <<"s","e","p">>, <<"o","c","t">>, <<"n","o","v">>, <<"d","e","c">>>>

MonthFull == <<<<"j","a","n","u","a","r","y">>, <<"f","e","b","r","u","a","r","y">>, <<"m","a","r","c","h">>, <<"a","p","r","i","l">>, <<"m","a","y">>,
               <<"j","u","n","e">>, <<"j","u","l","y">>, <<"a","u","g","u","s","t">>, <<"s","e","p","t","e","m","b","e","r">>, <<"o","c","t","o","b","e","r">>,
               <<"n","o","v","e","m","b","e","r">>, <<"d","e","c","e","m","b","e","r">>>>

\* the %b directive, then the %B directive; names match in any case
MonthNameOf(tok) ==
    LET name == Lower(tok)
    IN IF \E m \in 1..12 : MonthAbbr[m] = name
       THEN CHOOSE m \in 1..12 : MonthAbbr[m] = name
       ELSE IF \E m \in 1..12 : MonthFull[m] = name
       THEN CHOOSE m \in 1..12 : MonthFull[m] = name
       ELSE 0

\* parse_csv_date: DD-MM-YYYY
ParseCsvDate(t) ==
    LET parts == SplitOn(t, "-")
        d == DayOf(parts[1])
        m == MonthNumberOf(parts[2])
        y == YearOf(parts[3])
    IN IF Len(parts) = 3 /\ d # 0 /\ m # 0 /\ y # 0 /\ ValidDate(y, m, d)
       THEN Some(MkDate(y, m, d))
       ELSE None

\* parse_json_date: the tokens of 'D MMM YYYY'
ParseJsonDate(toks) ==
    LET d == DayOf(toks[1])
        m == MonthNameOf(toks[2])
        y == YearOf(toks[3])
    IN IF Len(toks) = 3 /\ d # 0 /\ m # 0 /\ y # 0 /\ ValidDate(y, m, d)
       THEN Some(MkDate(y, m, d))
       ELSE None

\* str.split(' - ') of a display text: a dash token separates when it has a
\* space on both sides that no earlier separator has taken
RECURSIVE SplitDashFrom(_, _, _)
SplitDashFrom(toks, i, piece) ==
    IF i > Len(toks) THEN <<piece>>
    ELSE IF toks[i] = Dash /\ i > 1 /\ i < Len(toks) /\ piece # <<>>
    THEN <<piece>> \o SplitDashFrom(toks, i + 1, <<>>)
    ELSE SplitDashFrom(toks, i + 1, Append(piece, toks[i]))

SplitDash(toks) == SplitDashFrom(toks, 1, <<>>)

MinParts == 3
EndTokens == 3

\* the parse with the last segment taken as the status
ExtractDatesFromJsonString_lastStatus(toks) ==
    LET parts == SplitDash(toks)
        start == ParseJsonDate(Append(parts[1], parts[2][EndTokens]))
        end == ParseJsonDate(parts[2])
    IN IF Len(parts) < MinParts THEN None
       ELSE IF Len(parts[2]) # EndTokens THEN None
       ELSE IF ~IsNone(start) /\ ~IsNone(end)
       THEN Some([start |-> start[1], end |-> end[1], status |-> parts[Len(parts)]])
       ELSE None

\* extract_dates_from_json_string: Some([start, end, status]) or None
ExtractDatesFromJsonString(toks) ==
    LET parts == SplitDash(toks)
        start == ParseJsonDate(Append(parts[1], parts[2][EndTokens]))
        end == ParseJsonDate(parts[2])
    IN IF Len(parts) < MinParts THEN None
       ELSE IF Len(parts[2]) # EndTokens THEN None
       ELSE IF ~IsNone(start) /\ ~IsNone(end)
       THEN Some([start |-> start[1], end |-> end[1], status |-> parts[3]])
       ELSE None

----------------------------------------------------------------------------
(* merge_csv_data.py: names and tables *)

\* ' '.join(t.split()): runs of spaces become one, none at the ends
RECURSIVE CollapseSpaces(_)
CollapseSpaces(t) ==
    IF t = <<>> THEN <<>>
    ELSE IF IsSpace(t[1]) THEN CollapseSpaces(Tail(t))
    ELSE IF Len(t) >= 2 /\ IsSpace(t[2])
         THEN (IF \A i \in 2..Len(t) : IsSpace(t[i]) THEN <<t[1]>>
               ELSE <<t[1], " ">> \o CollapseSpaces(Tail(t)))
    ELSE <<t[1]>> \o CollapseSpaces(Tail(t))

\* normalize_tour_name
NormalizeTourName(name) ==
    Strip(CollapseSpaces(ReplaceChar(ReplaceChar(RemoveChar(name, ":"), "&", " "),
                                     "-", " ")))

\* int(val) if val else None, None when int() raises
IntCell(t) ==
    IF AllDigits(t) THEN Some(IntOf(t))
    ELSE IF Len(t) >= 2 /\ t[1] = "-" /\ AllDigits(Tail(t)) THEN Some(0 - IntOf(Tail(t)))
    ELSE None

\* int(val) if val else 0, 0 when int() raises
PlacesCell(t) == IF IsNone(IntCell(t)) THEN 0 ELSE IntCell(t)[1]

\* d[k] = v
Put(d, k, v) == [x \in DOMAIN d \cup {k} |-> IF x = k THEN v ELSE d[x]]

\* d.get(k), None when the key is missing
Get(d, k) == IF k \in DOMAIN d THEN Some(d[k]) ELSE None

\* the date rows of one ledger file: rows without a valid start and end
\* date are skipped
RECURSIVE LedgerRows(_)
LedgerRows(rows) ==
    IF rows = <<>> THEN <<>>
    ELSE (IF IsNone(ParseCsvDate(Head(rows).start)) \/ IsNone(ParseCsvDate(Head(rows).end))
          THEN <<>>
          ELSE <<[start_date |-> ParseCsvDate(Head(rows).start)[1],
                  end_date |-> ParseCsvDate(Head(rows).end)[1],
                  available_spaces |-> PlacesCell(Head(rows).places),
                  prices |-> [deposit |-> [c \in CurrencySet |-> IntCell(Head(rows).deposit[c])],
                              main |-> [c \in CurrencySet |-> IntCell(Head(rows).main[c])]]]>>)
         \o LedgerRows(Tail(rows))

\* load_csv_data over the files in the order the directory lists them
RECURSIVE LoadCsvData(_, _)
LoadCsvData(files, acc) ==
    IF files = <<>> THEN acc
    ELSE LET name == ReplaceChar(Head(files).stem, "_", " ")
             data == LedgerRows(Head(files).rows)
             one == Put(acc, name, data)
             two == IF NormalizeTourName(name) # name
                    THEN Put(one, NormalizeTourName(name), data) ELSE one
         IN LoadCsvData(Tail(files), two)

\* the prices of one row of a global price file
GlobalRowPrices(row) == [c \in CurrencySet |-> IntCell(row.main[c])]

\* load_global_prices over the rows of the files in order
RECURSIVE LoadGlobalPrices(_, _)
LoadGlobalPrices(rows, acc) ==
    IF rows = <<>> THEN acc
    ELSE LET name == Strip(Head(rows).tour_name)
             one == Put(acc, name, GlobalRowPrices(Head(rows)))
             two == IF NormalizeTourName(name) # name
                    THEN Put(one, NormalizeTourName(name), GlobalRowPrices(Head(rows)))
                    ELSE one
         IN LoadGlobalPrices(Tail(rows), IF name = <<>> THEN acc ELSE two)

----------------------------------------------------------------------------
(* merge_csv_data.py: enhance_json_with_csv_data *)

\* an entry of starting_dates: the bare display string, or the object
Bare(toks) == [form |-> "string", text |-> toks]
Enriched(toks, status, spaces, prices) ==
    [form |-> "object", date |-> toks, status |-> status,
     available_spaces |-> spaces, prices |-> prices]

\* the rows agree with the parsed pair on both dates
RowMatches_start(row, parsed) == row.start_date = parsed.start

RowMatches(row, parsed) ==
    row.start_date = parsed.start /\ row.end_date = parsed.end

\* match_dates: the first matching row, or None
MatchDates(toks, rows) ==
    LET parsed == ExtractDatesFromJsonString(toks)
        k == FirstIndex(rows, LAMBDA r : RowMatches(r, parsed[1]))
    IN IF IsNone(parsed) THEN None
       ELSE IF k = 0 THEN None
       ELSE Some(rows[k])

\* the body of the loop over the date strings of a tour
ReconcileEntry_nulls(e, rows) ==
    LET parsed == ExtractDatesFromJsonString(e.text)
        match == MatchDates(e.text, rows)
    IN IF IsNone(parsed) THEN Enriched(e.text, <<>>, None, None)
       ELSE IF ~IsNone(match)
       THEN Enriched(e.text, parsed[1].status,
                     Some(match[1].available_spaces), Some(match[1].prices))
       ELSE Enriched(e.text, parsed[1].status, None, None)

ReconcileEntry_unmatchedBare(e, rows) ==
    LET parsed == ExtractDatesFromJsonString(e.text)
        match == MatchDates(e.text, rows)
    IN IF IsNone(parsed) THEN e
       ELSE IF ~IsNone(match)
       THEN Enriched(e.text, parsed[1].status,
                     Some(match[1].available_spaces), Some(match[1].prices))
       ELSE e

ReconcileEntry(e, rows) ==
    LET parsed == ExtractDatesFromJsonString(e.text)
        match == MatchDates(e.text, rows)
    IN IF IsNone(parsed) THEN e
       ELSE IF ~IsNone(match)
       THEN Enriched(e.text, parsed[1].status,
                     Some(match[1].available_spaces), Some(match[1].prices))
       ELSE Enriched(e.text, parsed[1].status, None, None)

\* `not x` for the result of dict.get: the key is missing or its value is
\* an empty list or dict
Falsy(opt) == IsNone(opt) \/ DOMAIN opt[1] = {}

\* the ledger rows looked up for a tour name
LookupRows(csv, name) ==
    IF Falsy(Get(csv, name)) THEN Get(csv, NormalizeTourName(name))
    ELSE Get(csv, name)

\* the global prices looked up for a tour name
LookupPrices(gp, name) ==
    IF Falsy(Get(gp, name)) THEN Get(gp, NormalizeTourName(name))
    ELSE Get(gp, name)

\* tour.get(key, default)
Field(tour, key, default) == IF key \in DOMAIN tour THEN tour[key] ELSE default

\* the tour after the price step of the loop body
WithGlobalPrice_ifDates(tour, gp) ==
    IF Falsy(LookupPrices(gp, tour.tour_name))
       \/ Field(tour, "starting_dates", <<>>) = <<>> THEN tour
    ELSE Put(tour, "price", LookupPrices(gp, tour.tour_name)[1])

WithGlobalPrice(tour, gp) ==
    IF Falsy(LookupPrices(gp, tour.tour_name)) THEN tour
    ELSE Put(tour, "price", LookupPrices(gp, tour.tour_name)[1])

\* the dates step that rebuilds the list also for a tour without ledger
\* rows
WithLedgerDates_always(tour, csv) ==
    LET dates == Field(tour, "starting_dates", <<>>)
        rows == IF Falsy(LookupRows(csv, tour.tour_name)) THEN <<>>
                ELSE LookupRows(csv, tour.tour_name)[1]
    IN IF dates = <<>> THEN tour
       ELSE Put(tour, "starting_dates",
                [j \in 1..Len(dates) |-> ReconcileEntry(dates[j], rows)])

\* the tour after the dates step of the loop body
WithLedgerDates(tour, csv) ==
    LET dates == Field(tour, "starting_dates", <<>>)
    IN IF dates = <<>> THEN tour
       ELSE IF Falsy(LookupRows(csv, tour.tour_name)) THEN tour
       ELSE Put(tour, "starting_dates",
                [j \in 1..Len(dates) |->
                    ReconcileEntry(dates[j], LookupRows(csv, tour.tour_name)[1])])

\* one iteration of the loop over the tours
EnhanceTour(tour, gp, csv) ==
    IF Field(tour, "tour_name", <<>>) = <<>> THEN tour
    ELSE WithLedgerDates(WithGlobalPrice(tour, gp), csv)

\* the JSON file and the two directories are read
MergeLoad ==
    /\ pc = "m_load"
    /\ \/ /\ csv_data' = LoadCsvData(mfiles.ledger, <<>>)
          /\ global_prices' = LoadGlobalPrices(mfiles.prices, <<>>)
          /\ pc' = "m_tours"
       \/ /\ pc' = "m_failed"
          /\ UNCHANGED <<csv_data, global_prices>>
    /\ UNCHANGED <<mfiles, tours, out_tours, ti>>
    /\ UNCHANGED <<url, page, tour_data, result, ran, cur, session, attempts,
                   faults, today, remembered>>

\* the next tour of the list is enhanced
MergeTour ==
    /\ pc = "m_tours"
    /\ ti <= Len(tours)
    /\ out_tours' = Append(out_tours, EnhanceTour(tours[ti], global_prices, csv_data))
    /\ ti' = ti + 1
    /\ UNCHANGED <<pc, mfiles, csv_data, global_prices, tours>>
    /\ UNCHANGED <<url, page, tour_data, result, ran, cur, session, attempts,
                   faults, today, remembered>>

\* the enhanced list is written, or the write fails
MergeWrite ==
    /\ pc = "m_tours"
    /\ ti > Len(tours)
    /\ pc' \in {"m_written", "m_failed"}
    /\ UNCHANGED mergeVars
    /\ UNCHANGED <<url, page, tour_data, result, ran, cur, session, attempts,
                   faults, today, remembered>>

----------------------------------------------------------------------------
(* Inputs of the merge *)

\* the longest starting_dates list of a tour of the JSON file
MaxDates == 2

NameSpace == <<"B","a","l","i"," ","T","o","u","r">>
NameDash == <<"B","a","l","i","-","T","o","u","r">>
NameColon == <<"B","a","l","i",":"," ","T","o","u","r">>
NameOther == <<"G","o","a"," ","T","o","u","r">>
TourNames == {NameSpace, NameDash, NameColon, NameOther}

DateStrings ==
    {<<<<"6">>, <<"O","c","t">>, Dash, <<"1","9">>, <<"O","c","t">>, <<"2","0","2","5">>, Dash, <<"B","o","o","k">>, <<"N","o","w">>>>,
     <<<<"0","6">>, <<"o","c","t","o","b","e","r">>, Dash, <<"1","9">>, <<"O","c","t">>, <<"2","0","2","5">>, Dash, <<"L","i","m","i","t","e","d">>>>,
     <<<<"6">>, <<"O","c","t">>, Dash, <<"2","0">>, <<"O","c","t">>, <<"2","0","2","5">>, Dash, <<"B","o","o","k">>, <<"N","o","w">>>>,
     <<<<"7">>, <<"O","c","t">>, Dash, <<"1","9">>, <<"O","c","t">>, <<"2","0","2","5">>, Dash, <<"A","v","a","i","l","a","b","l","e">>>>,
     <<<<"3","0">>, <<"F","e","b">>, Dash, <<"3">>, <<"M","a","r">>, <<"2","0","2","5">>, Dash, <<"A","v","a","i","l","a","b","l","e">>>>,
     <<<<"6">>, <<"O","c","t">>, Dash, <<"1","9">>, <<"O","c","t">>, <<"2","0","2","5">>>>,
     <<<<"6">>, <<"O","c","t">>, Dash, <<"1","9">>, <<"O","c","t">>, Dash, <<"B","o","o","k">>, <<"N","o","w">>>>,
     <<<<"2","8">>, <<"D","e","c">>, Dash, <<"3">>, <<"J","a","n">>, <<"2","0","2","6">>, Dash, <<"A","v","a","i","l","a","b","l","e">>>>,
     <<<<"6">>, <<"O","c","t">>, Dash, <<"1","9">>, <<"O","c","t">>, <<"2","0","2","5">>, Dash, <<"B","o","o","k">>, <<"N","o","w">>, Dash,
       <<"3">>, <<"l","e","f","t">>>>}

RECURSIVE ListsUpTo(_, _)
ListsUpTo(S, n) ==
    IF n = 0 THEN {<<>>}
    ELSE LET shorter == ListsUpTo(S, n - 1)
         IN shorter \cup {Append(l, x) : l \in {s \in shorter : Len(s) = n - 1}, x \in S}

DateLists == ListsUpTo({Bare(d) : d \in DateStrings}, MaxDates)

\* the price object the extractor wrote
ExtractedPrice == [c \in CurrencySet |-> IF c = "USD" THEN Some(1200) ELSE Some(0)]

Tour(name, dates) ==
    [tour_name |-> name, url |-> <<"h","t","t","p","s",":","/","/","b","t",".","c","o","m","/","t","/","b","a","l","i","-","t","r","i","p">>,
     country |-> <<"b","a","l","i">>, starting_dates |-> dates, price |-> ExtractedPrice]

ErrorTour == [url |-> <<"h","t","t","p","s",":","/","/","b","t",".","c","o","m","/","t","/","i","n","d","i","a">>, error |-> "timeout"]

NamelessTour == Tour(<<>>, <<Bare(CHOOSE d \in DateStrings : Len(d) = 9 /\ d[1] = <<"6">> /\ d[4] = <<"1","9">>)>>)

TourLists ==
    {<<ErrorTour, Tour(n, l), NamelessTour>> : n \in TourNames, l \in DateLists}

AllCells(t) == [c \in CurrencySet |-> t]

LedgerRow(start, end, places) ==
    [start |-> start, end |-> end, places |-> places,
     deposit |-> AllCells(<<"1","0","0">>),
     main |-> [AllCells(<<"9","0","0">>) EXCEPT !["EUR"] = <<>>]]

RowBoth == LedgerRow(<<"0","6","-","1","0","-","2","0","2","5">>, <<"1","9","-","1","0","-","2","0","2","5">>, <<"3">>)
RowBothAgain == LedgerRow(<<"6","-","1","0","-","2","0","2","5">>, <<"1","9","-","1","0","-","2","0","2","5">>, <<"5">>)
RowStartOnly == LedgerRow(<<"0","6","-","1","0","-","2","0","2","5">>, <<"2","1","-","1","0","-","2","0","2","5">>, <<"0">>)
RowEndOnly == LedgerRow(<<"0","5","-","1","0","-","2","0","2","5">>, <<"1","9","-","1","0","-","2","0","2","5">>, <<>>)
RowInvalid == LedgerRow(<<"3","1","-","0","2","-","2","0","2","5">>, <<"1","9","-","1","0","-","2","0","2","5">>, <<"9">>)
RowNewYear == LedgerRow(<<"2","8","-","1","2","-","2","0","2","5">>, <<"0","3","-","0","1","-","2","0","2","6">>, <<"7">>)

LedgerFile(stem, rows) == [stem |-> stem, rows |-> rows]
PriceRow(name, main) == [tour_name |-> name, main |-> main]

\* the ledger files in directory order and the rows of the global price
\* files in reading order
MergeInputs ==
    {[ledger |-> <<LedgerFile(<<"B","a","l","i","_","T","o","u","r">>,
                              <<RowStartOnly, RowBoth, RowBothAgain, RowEndOnly,
                                RowInvalid, RowNewYear>>)>>,
      prices |-> <<PriceRow(<<"B","a","l","i"," ","T","o","u","r">>, AllCells(<<"9","0","0">>))>>],
     [ledger |-> <<LedgerFile(<<"B","a","l","i","-","T","o","u","r">>, <<RowInvalid>>),
                   LedgerFile(<<"B","a","l","i","_","T","o","u","r">>, <<RowBoth>>)>>,
      prices |-> <<PriceRow(<<"B","a","l","i","-","T","o","u","r">>, AllCells(<<"7","0","0">>)),
                   PriceRow(<<" ","B","a","l","i"," ","T","o","u","r"," ">>, AllCells(<<"9","0","0">>))>>],
     [ledger |-> <<LedgerFile(<<"B","a","l","i","_","T","o","u","r">>, <<RowBoth>>),
                   LedgerFile(<<"B","a","l","i","-","T","o","u","r">>, <<RowInvalid>>)>>,
      prices |-> <<PriceRow(<<" ","B","a","l","i"," ","T","o","u","r"," ">>, AllCells(<<"9","0","0">>)),
                   PriceRow(<<"B","a","l","i","-","T","o","u","r">>, AllCells(<<"7","0","0">>))>>],
     [ledger |-> <<LedgerFile(<<"G","o","a","_","T","r","i","p">>, <<RowBoth>>)>>,
      prices |-> <<PriceRow(<<>>, AllCells(<<"1">>)),
                   PriceRow(<<"B","a","l","i"," ","T","o","u","r">>,
                            [AllCells(<<"9","0","0">>) EXCEPT !["EUR"] = <<>>,
                                                      !["GBP"] = <<"n","/","a">>,
                                                      !["USD"] = <<"-","5">>])>>],
     [ledger |-> <<LedgerFile(<<"B","a","l","i","_","T","o","u","r">>, <<RowStartOnly, RowEndOnly>>)>>,
      prices |-> <<>>],
     [ledger |-> <<>>, prices |-> <<>>]}

----------------------------------------------------------------------------
(* Specifications *)

MergeIdle ==
    /\ mfiles = <<>>
    /\ csv_data = <<>>
    /\ global_prices = <<>>
    /\ tours = <<>>
    /\ out_tours = <<>>
    /\ ti = 0

ExtractIdle ==
    /\ url = <<>>
    /\ page = NoPage
    /\ tour_data = NoResult
    /\ result = NoResult
    /\ ran = <<>>
    /\ cur = 1
    /\ attempts = [c \in CurrencySet |-> Pending]
    /\ faults = 0
    /\ today = <<>>
    /\ remembered = None

\* a new extractor: the session has the currency the site gives a new visitor
Init ==
    /\ pc = "idle"
    /\ ExtractIdle
    /\ session \in CurrencySet
    /\ MergeIdle

Next ==
    \/ Start
    \/ Fetch
    \/ ExtractTourInformation
    \/ ExtractSeo
    \/ ExtractColour
    \/ ExtractItineraryStep
    \/ ExtractDates
    \/ PriceStep
    \/ ValidateAndReturn

Spec == Init /\ [][Next]_vars

\* the merge script is started on a JSON file and two directories
MergeInit ==
    /\ pc = "m_load"
    /\ mfiles \in MergeInputs
    /\ tours \in TourLists
    /\ csv_data = <<>>
    /\ global_prices = <<>>
    /\ out_tours = <<>>
    /\ ti = 1
    /\ ExtractIdle
    /\ session = "GBP"

MergeNext ==
    \/ MergeLoad
    \/ MergeTour
    \/ MergeWrite

MergeSpec == MergeInit /\ [][MergeNext]_vars

\* _extract_all_currency_prices is entered with the record of a tour whose
\* page was fetched; every request of the loop may fail
AnyFaults == 2 * Len(Currencies)

PriceStepAny == PriceIteration(AnyFaults)

PriceInit ==
    /\ pc = "price"
    /\ url = CHOOSE u \in URLs : Last(u) # "/"
    /\ page \in Pages
    /\ today = CHOOSE d \in RunDates : TRUE
    /\ tour_data = [NewTourData(url, today) EXCEPT !.tour_id = GenerateTourId(url)]
    /\ result = NoResult
    /\ ran = <<"tour_information", "seo_data", "tour_colour", "itinerary",
               "starting_dates">>
    /\ cur = 1
    /\ attempts = [c \in CurrencySet |-> Pending]
    /\ faults = 0
    /\ remembered = None
    /\ session \in CurrencySet
    /\ MergeIdle

PriceNext ==
    \/ PriceStepAny
    \/ ValidateAndReturn

PriceSpec == PriceInit /\ [][PriceNext]_vars

----------------------------------------------------------------------------
(* _extract_tour_name on its own *)

\* the most headings a page of the name inputs has
MaxHeadings == 2

HeadingTexts == {<<"T","o","u","r","s">>, <<" ","B","a","l","i"," ","T","r","e","k"," ">>, <<"B","o","o","k"," ","a"," ","t","r","i","p">>, <<"A","s","i","a"," ","T","o","u","r","s">>,
                 <<"L","a","o","s"," ","L","o","o","p">>, <<"A","d","v","e","n","t","u","r","e">>}

TitleTexts == {<<"B","a","l","i"," ","T","r","e","k"," ","|"," ","B","a","c","k","p","a","c","k","i","n","g"," ","T","o","u","r","s">>, <<"T","o","u","r","s"," ","-"," ","B","T">>, <<"H","o","m","e">>,
               <<"C","o","o","k","i","e"," ","n","o","t","i","c","e">>, <<"G","o","a"," ","T","r","i","p"," ","-"," ","B","T"," ","A","d","v","e","n","t","u","r","e","s">>}

\* the results of the seven selectors: at most MaxHeadings of them find an
\* element
RECURSIVE RowsWith(_, _)
RowsWith(n, m) ==
    IF n = 0 THEN {<<>>}
    ELSE {Append(r, Absent) : r \in RowsWith(n - 1, m)}
         \cup (IF m = 0 THEN {}
               ELSE {Append(r, Elem(t)) : r \in RowsWith(n - 1, m - 1),
                                          t \in HeadingTexts})

HeadingRows == RowsWith(Len(H1Selectors), MaxHeadings)

NamePages ==
    {[PoorPage EXCEPT !.h1 = h, !.title = t] :
        h \in HeadingRows, t \in {Absent} \cup {Elem(x) : x \in TitleTexts}}

FieldIdle ==
    /\ today = CHOOSE d \in RunDates : TRUE
    /\ result = NoResult
    /\ ran = <<>>
    /\ cur = 1
    /\ attempts = [c \in CurrencySet |-> Pending]
    /\ faults = 0
    /\ remembered = None
    /\ session = "GBP"
    /\ MergeIdle

NameInit ==
    /\ pc = "tour_name"
    /\ page \in NamePages
    /\ url = CHOOSE u \in URLs : Last(u) # "/"
    /\ FieldIdle
    /\ tour_data = NewTourData(url, today)

\* _extract_tour_name(soup, tour_data)
NameStep ==
    /\ pc = "tour_name"
    /\ tour_data' = [tour_data EXCEPT !.tour_name = ExtractTourName(page)]
    /\ pc' = "tour_name_done"
    /\ UNCHANGED <<url, page, result, ran, cur, session, attempts, faults, today,
                   remembered>>
    /\ UNCHANGED mergeVars

NameSpec == NameInit /\ [][NameStep]_vars

----------------------------------------------------------------------------
(* _extract_country_from_articles on its own *)

\* the most links a page of the country inputs has
MaxLinks == 2

CountryURLs == {<<"h","t","t","p","s",":","/","/","b","t",".","c","o","m","/","t","/","b","a","l","i","-","s","r","i","-","l","a","n","k","a">>,
                <<"h","t","t","p","s",":","/","/","b","t",".","c","o","m","/","t","/","b","a","c","k","p","a","c","k","i","n","g","-","s","r","i","-","l","a","n","k","a","/">>,
                <<"h","t","t","p","s",":","/","/","b","t",".","c","o","m","/","t","/","I","n","d","i","a","-","E","x","p","l","o","r","e","r">>,
                <<"h","t","t","p","s",":","/","/","b","t",".","c","o","m","/","t","/","i","s","l","a","n","d","-","h","o","p">>}

LinkTexts == {<<"/","b","l","o","g","/","t","h","a","i","l","a","n","d","-","g","u","i","d","e">>, <<"/","b","l","o","g","/","b","a","n","g","k","o","k","-","f","o","o","d">>,
              <<"/","b","l","o","g","/","t","r","a","v","e","l","-","t","i","p","s">>, <<"/","b","l","o","g","/","t","o","p","-","1","0">>, <<"/","a","b","o","u","t">>,
              <<"/","B","L","O","G","/","B","a","l","i">>}

RECURSIVE SeqsUpTo(_, _)
SeqsUpTo(S, n) ==
    IF n = 0 THEN {<<>>}
    ELSE LET shorter == SeqsUpTo(S, n - 1)
         IN shorter \cup {Append(l, x) : l \in {s \in shorter : Len(s) = n - 1}, x \in S}

CountryInit ==
    /\ pc = "country"
    /\ url \in CountryURLs
    /\ page \in {[PoorPage EXCEPT !.links = l] : l \in SeqsUpTo(LinkTexts, MaxLinks)}
    /\ FieldIdle
    /\ tour_data = NewTourData(url, today)

\* _extract_country_from_articles(soup, tour_data)
CountryStep ==
    /\ pc = "country"
    /\ tour_data' = [tour_data EXCEPT !.country = ExtractCountry(url, page.links)]
    /\ pc' = "country_done"
    /\ UNCHANGED <<url, page, result, ran, cur, session, attempts, faults, today,
                   remembered>>
    /\ UNCHANGED mergeVars

CountrySpec == CountryInit /\ [][CountryStep]_vars

----------------------------------------------------------------------------
(* _extract_tour_dates on its own *)

\* the most table rows a dates fragment of the dates inputs has
MaxRows == 2

OctRange == <<<<"6">>, <<"O","c","t">>, Dash, <<"1","9">>, <<"O","c","t">>, <<"2","0","2","5">>>>
NovRange == <<<<"3">>, <<"N","o","v">>, Dash, <<"1","6">>, <<"N","o","v">>, <<"2","0","2","5">>>>
DecRange == <<<<"1">>, <<"D","e","c">>, Dash, <<"1","4">>, <<"D","e","c">>, <<"2","0","2","5">>>>

\* table rows: with one keyword, with keywords of several rules, with none,
\* and a heading row whose first cell is no date range
DateRows ==
    {[has_td |-> TRUE, cell |-> OctRange, rest |-> <<" ","B","o","o","k"," ","N","o","w">>],
     [has_td |-> TRUE, cell |-> OctRange, rest |-> <<" ","L","i","m","i","t","e","d"," ","s","p","a","c","e","s"," ","a","v","a","i","l","a","b","l","e">>],
     [has_td |-> TRUE, cell |-> NovRange, rest |-> <<" ","S","o","l","d"," ","O","u","t"," ","-"," ","l","i","m","i","t","e","d">>],
     [has_td |-> TRUE, cell |-> NovRange, rest |-> <<" ","L","i","m","i","t","e","d">>],
     [has_td |-> TRUE, cell |-> DecRange, rest |-> <<" ","E","n","q","u","i","r","e">>],
     [has_td |-> TRUE, cell |-> DecRange, rest |-> <<" ","F","u","l","l","y"," ","b","o","o","k","e","d">>],
     [has_td |-> TRUE, cell |-> <<<<"D","a","t","e","s">>>>, rest |-> <<" ","S","t","a","t","u","s">>]}

\* page texts of the fragment: none, one without a date range, one with a
\* repeated range and a keyword
DateTexts ==
    {<<>>,
     <<<<"D","a","t","e","s">>, <<"o","n">>, <<"r","e","q","u","e","s","t">>>>,
     <<<<"D","e","p","a","r","t","s">>>> \o OctRange \o <<<<"o","r">>>> \o NovRange \o <<<<"l","i","m","i","t","e","d">>, <<"o","r">>>>
        \o OctRange}

\* an entry a record may hold before the method runs
EarlierEntry == DateEntry(<<<<"1">>, <<"J","a","n">>, Dash, <<"9">>, <<"J","a","n">>, <<"2","0","2","0">>>>, Available)

DatesInit ==
    /\ pc = "starting_dates"
    /\ url = CHOOSE u \in URLs : Last(u) # "/"
    /\ page \in {[PoorPage EXCEPT !.dates =
                     [numeric_id_found |-> f[1], is_json |-> f[2], has_html |-> f[3],
                      rows |-> r, text |-> t]] :
                 f \in BOOLEAN \X BOOLEAN \X BOOLEAN,
                 r \in SeqsUpTo(DateRows, MaxRows), t \in DateTexts}
    /\ FieldIdle
    /\ \E earlier \in {<<>>, <<EarlierEntry>>} :
          tour_data = [NewTourData(url, today) EXCEPT !.starting_dates = earlier]

\* _extract_tour_dates(tour_data), given what its two requests did
DatesStep ==
    /\ pc = "starting_dates"
    /\ \E idFetch \in RequestOutcomes, apiFetch \in RequestOutcomes :
          /\ idFetch = "raise" => apiFetch = "ok"
          /\ faults' = IF idFetch = "raise" \/ apiFetch = "raise"
                       THEN faults + 1 ELSE faults
          /\ tour_data' = [tour_data EXCEPT
                              !.starting_dates =
                                  ExtractTourDates(page.dates, idFetch, apiFetch)]
    /\ pc' = "starting_dates_done"
    /\ UNCHANGED <<url, page, result, ran, cur, session, attempts, today,
                   remembered>>
    /\ UNCHANGED mergeVars

DatesSpec == DatesInit /\ [][DatesStep]_vars

----------------------------------------------------------------------------
(* the loop of _extract_tour_information over the tour facts of the page *)

\* the most tour facts a page of the fact inputs has
MaxItems == 2

DurationTexts == {<<"8"," ","d","a","y","s">>, <<"1","4"," ","D","a","y","s">>, <<"1"," ","D","A","Y">>, <<"1","0","d","a","y","s">>,
                  <<"3"," ","n","i","g","h","t","s"," ","4"," ","d","a","y","s">>, <<"5"," ","t","o"," ","7"," "," ","d","a","y","s">>, <<"2"," ","w","e","e","k","s">>,
                  <<"d","a","y","s"," ","v","a","r","y">>, <<>>}

AgeTexts == {<<"1","8","-","3","5">>, <<"1","8","+">>, <<"A","v","g"," ","2","8">>, <<"1","8"," ","t","o"," ","3","5"," ","m","a","x"," ","4","0">>,
             <<"a","l","l"," ","a","g","e","s">>, <<>>}

\* tour facts labelled as a length or an average age, and one without its
\* value span
InfoItems ==
    {Item(<<"L","e","n","g","t","h",":">>, <<" ">> \o t) : t \in DurationTexts}
      \cup {Item(<<"A","v","g","."," ","a","g","e",":"," ">>, t) : t \in AgeTexts}
      \cup {[has_b |-> TRUE, has_span |-> FALSE, key |-> <<"L","e","n","g","t","h",":">>, value |-> <<>>]}

InfoInit ==
    /\ pc = "tour_info_items"
    /\ url = CHOOSE u \in URLs : Last(u) # "/"
    /\ page \in {[PoorPage EXCEPT !.info_items = l] : l \in SeqsUpTo(InfoItems, MaxItems)}
    /\ FieldIdle
    /\ tour_data = NewTourData(url, today)

\* one pass of the loop over the list-tour-info__item-desc elements
InfoItem ==
    /\ pc = "tour_info_items"
    /\ cur <= Len(page.info_items)
    /\ tour_data' =
          [tour_data EXCEPT
              !.tour_information =
                  IF page.info_items[cur].has_b /\ page.info_items[cur].has_span
                  THEN AssignTourInfoValue(Strip(page.info_items[cur].key),
                                           Strip(page.info_items[cur].value), @)
                  ELSE @]
    /\ cur' = cur + 1
    /\ UNCHANGED <<pc, url, page, result, ran, session, attempts, faults, today,
                   remembered>>
    /\ UNCHANGED mergeVars

\* the loop has gone through every element
InfoItemsDone ==
    /\ pc = "tour_info_items"
    /\ cur > Len(page.info_items)
    /\ pc' = "tour_info_items_done"
    /\ UNCHANGED <<url, page, tour_data, result, ran, cur, session, attempts,
                   faults, today, remembered>>
    /\ UNCHANGED mergeVars

InfoSpec == InfoInit /\ [][InfoItem \/ InfoItemsDone]_vars

----------------------------------------------------------------------------
(* _validate_and_clean_data on the record of an extracted itinerary *)

\* the most day cards a page of the itinerary inputs has
MaxCards == 2

\* the most validation passes over one record
MaxPasses == 2

MealTexts == {<<"B","r","e","k","f","a","s","t",","," ","L","u","n","c","h">>, <<"L","u","n","c","h",","," ","B","r","e","k","f","a","s","t",","," ","B","r","e","k","f","a","s","t">>, <<"B","r","e","a","k","f","a","s","t">>,
              <<"b","r","e","k","f","a","s","t",","," ","B","r","e","k","f","a","s","t"," ","b","o","x">>, <<"D","i","n","n","e","r">>, <<>>}

DayCard(day, items) ==
    [has_day_span |-> TRUE, day_text |-> day, title |-> Absent, desc |-> Absent,
     items |-> items]

\* day cards with one meals line each, and one with none
DayCards ==
    {DayCard(d, <<Item(<<"M","e","a","l","s"," ","i","n","c","l","u","d","e","d",":">>, m)>>) :
        d \in {<<"D","a","y"," ","1">>, <<"D","a","y"," ","2">>}, m \in MealTexts}
      \cup {DayCard(<<"D","a","y"," ","1">>, <<Item(<<"R","o","o","m"," ","t","y","p","e",":">>, <<"D","o","r","m">>)>>)}

ValidateInit ==
    /\ pc = "validate"
    /\ url = CHOOSE u \in URLs : Last(u) # "/"
    /\ page \in {[PoorPage EXCEPT !.cards = l] : l \in SeqsUpTo(DayCards, MaxCards)}
    /\ FieldIdle
    /\ tour_data = [NewTourData(url, today) EXCEPT
                       !.itinerary = ExtractItinerary(page.cards, 1, <<>>)]

\* _validate_and_clean_data(tour_data)
ValidateStep ==
    /\ pc = "validate"
    /\ Len(ran) < MaxPasses
    /\ tour_data' = ValidateAndCleanData(tour_data)
    /\ ran' = Append(ran, "validate")
    /\ UNCHANGED <<pc, url, page, result, cur, session, attempts, faults, today,
                   remembered>>
    /\ UNCHANGED mergeVars

ValidateSpec == ValidateInit /\ [][ValidateStep]_vars

----------------------------------------------------------------------------
(* _extract_tour_colour on its own *)

\* the most elements with a class attribute a page of the colour inputs has
MaxElements == 2

\* class lists of one element: priority classes with a short and with an
\* extended colour name, classes only the count sees, classes without a
\* colour
ClassLists ==
    {<<<<"b","g","-","b","l","u","e">>>>, <<<<"b","g","-","b","l","u","e","2">>>>, <<<<"c","o","l","o","r","-","o","r","a","n","g","e","b","l","o","o","d">>>>,
     <<<<"l","-","s","u","b","m","e","n","u","-","-","G","r","e","e","n","3">>>>, <<<<"b","t","n","-","-","g","r","e","e","n">>>>, <<<<"t","e","x","t","-","r","e","d","2">>>>,
     <<<<"i","c","o","n","-","r","e","d">>, <<"x","-","o","r","a","n","g","e">>>>, <<<<"b","t","n","-","-","g","r","e","e","n">>, <<"x","-","g","r","e","e","n">>>>, <<<<"c","a","r","d">>>>}

ColourInit ==
    /\ pc = "tour_colour"
    /\ url = CHOOSE u \in URLs : Last(u) # "/"
    /\ page \in {[PoorPage EXCEPT !.elements = l] : l \in SeqsUpTo(ClassLists, MaxElements)}
    /\ FieldIdle
    /\ tour_data = NewTourData(url, today)

\* _extract_tour_colour(soup, tour_data); an error leaves the sentinel
ColourStep ==
    /\ pc = "tour_colour"
    /\ \E fails \in BOOLEAN :
          /\ faults' = IF fails THEN faults + 1 ELSE faults
          /\ tour_data' = [tour_data EXCEPT
                              !.tour_colour = IF fails THEN NotAvailable
                                              ELSE ExtractTourColour(page.elements)]
    /\ pc' = "tour_colour_done"
    /\ UNCHANGED <<url, page, result, ran, cur, session, attempts, today,
                   remembered>>
    /\ UNCHANGED mergeVars

ColourSpec == ColourInit /\ [][ColourStep]_vars
----------------------------------------------------------------------------
(* scrape_full_process.py: main and the status file *)

\* the most entries group_tour_urls.json has
MaxUrls == 2

\* an entry of group_tour_urls.json: with a bt_url or without one
UrlEntries == {[bt_url |-> TRUE], [bt_url |-> FALSE]}

UrlLists == SeqsUpTo(UrlEntries, MaxUrls)

\* run_command: exit status zero, CalledProcessError (returns False), or any
\* other exception of subprocess.run, which run_command does not catch
CommandOutcomes == {"ok", "failed", "raise"}

NoSteps == [discovery |-> "pending", scraping |-> "pending",
            cleanup |-> "pending", unexpected |-> FALSE]

\* the statuses written to scraping_status.json by this run, oldest first
StatusLog == ran

\* set_status: the file is rewritten with the status and the progress
SetStatus(log, status, progress) ==
    Append(log, [status |-> status, progress |-> progress])

\* progress of tour i (counted from 0) in scrape_tours_individually
TourProgress(i, total_urls) == 10 + ((i * 85) \div total_urls)

\* main after the cleanup command: a failed cleanup only logs a warning
AfterCleanup_strict(outcome) ==
    IF outcome = "raise" THEN "handler"
    ELSE IF outcome = "failed" THEN "scrape_failed"
    ELSE "complete"

AfterCleanup(outcome) ==
    IF outcome = "raise" THEN "handler" ELSE "complete"

\* the places of main that report an error and return
ErrorPoints == {"discover_failed", "no_urls_file", "scrape_failed"}

StatusInit ==
    /\ pc = "main"
    /\ url = <<>>
    /\ page = NoPage
    /\ tour_data = NoResult
    /\ result = NoSteps
    /\ ran = <<>>
    /\ cur = 1
    /\ attempts = [c \in CurrencySet |-> Pending]
    /\ faults = 0
    /\ today = <<>>
    /\ remembered = None
    /\ session = "GBP"
    /\ MergeIdle

StatusIdle ==
    UNCHANGED <<url, page, tour_data, cur, session, attempts, faults, today,
                remembered, mfiles, csv_data, global_prices, out_tours>>

\* an exception inside the try block of main: control goes to the handler
ToHandler ==
    /\ pc' = "handler"
    /\ result' = [result EXCEPT !.unexpected = TRUE]

\* set_status('running', 5, ...)
StartRun ==
    /\ pc = "main"
    /\ \E written \in BOOLEAN :
         IF written
         THEN /\ ran' = SetStatus(ran, "running", 5)
              /\ pc' = "discover"
              /\ result' = result
         ELSE /\ ran' = ran
              /\ pc' = "handler"
              /\ result' = [result EXCEPT !.unexpected = TRUE]
    /\ UNCHANGED <<tours, ti>>
    /\ StatusIdle

\* run_command('python3 get_grouptour_urls.py', ...)
Discover ==
    /\ pc = "discover"
    /\ \E outcome \in CommandOutcomes :
         /\ result' = [result EXCEPT !.discovery = outcome,
                                     !.unexpected = (outcome = "raise")]
         /\ pc' = IF outcome = "ok" THEN "read_urls"
                  ELSE IF outcome = "failed" THEN "discover_failed"
                  ELSE "handler"
    /\ UNCHANGED <<ran, tours, ti>>
    /\ StatusIdle

\* os.path.exists(urls_file), open and json.load
ReadUrls ==
    /\ pc = "read_urls"
    /\ \/ /\ pc' = "no_urls_file"
          /\ UNCHANGED <<result, tours>>
       \/ /\ ToHandler
          /\ UNCHANGED tours
       \/ /\ tours' \in UrlLists
          /\ pc' = "start_scrape"
          /\ UNCHANGED result
    /\ UNCHANGED <<ran, ti>>
    /\ StatusIdle

\* set_status('error', 0, ...) followed by return
ReportError ==
    /\ pc \in ErrorPoints
    /\ \/ /\ ran' = SetStatus(ran, "error", 0)
          /\ pc' = "returned"
          /\ UNCHANGED result
       \/ /\ ToHandler
          /\ UNCHANGED ran
    /\ UNCHANGED <<tours, ti>>
    /\ StatusIdle

\* set_status('running', 10, ...) and os.path.exists('scrape_grouptours.py')
StartScrape ==
    /\ pc = "start_scrape"
    /\ \/ /\ ran' = SetStatus(ran, "running", 10)
          /\ \E exists \in BOOLEAN :
               pc' = IF exists THEN "scrape_script" ELSE "scrape_each"
          /\ ti' = 1
          /\ UNCHANGED result
       \/ /\ ToHandler
          /\ UNCHANGED <<ran, ti>>
    /\ UNCHANGED tours
    /\ StatusIdle

\* run_command('python3 scrape_grouptours.py', ...)
ScrapeScript ==
    /\ pc = "scrape_script"
    /\ \E outcome \in CommandOutcomes :
         /\ result' = [result EXCEPT !.scraping = outcome,
                                     !.unexpected = (outcome = "raise")]
         /\ pc' = IF outcome = "ok" THEN "start_cleanup"
                  ELSE IF outcome = "failed" THEN "scrape_failed"
                  ELSE "handler"
    /\ UNCHANGED <<ran, tours, ti>>
    /\ StatusIdle

\* one iteration of the loop of scrape_tours_individually: an entry without
\* bt_url is skipped; the failures of the scraping subprocess are caught
ScrapeTour ==
    /\ pc = "scrape_each"
    /\ ti <= Len(tours)
    /\ IF ~tours[ti].bt_url
       THEN /\ ti' = ti + 1
            /\ UNCHANGED <<pc, ran, result>>
       ELSE \/ /\ ran' = SetStatus(ran, "running",
                                   TourProgress(ti - 1, Len(tours)))
               /\ ti' = ti + 1
               /\ UNCHANGED <<pc, result>>
            \/ /\ ToHandler
               /\ UNCHANGED <<ran, ti>>
    /\ UNCHANGED tours
    /\ StatusIdle

\* after the loop: the results file is written and True is returned
SaveResults ==
    /\ pc = "scrape_each"
    /\ ti > Len(tours)
    /\ \/ /\ pc' = "start_cleanup"
          /\ result' = [result EXCEPT !.scraping = "ok"]
       \/ /\ pc' = "handler"
          /\ result' = [result EXCEPT !.scraping = "raise",
                                      !.unexpected = TRUE]
    /\ UNCHANGED <<ran, tours, ti>>
    /\ StatusIdle

\* set_status('running', 95, ...)
StartCleanup ==
    /\ pc = "start_cleanup"
    /\ \/ /\ ran' = SetStatus(ran, "running", 95)
          /\ pc' = "cleanup"
          /\ UNCHANGED result
       \/ /\ ToHandler
          /\ UNCHANGED ran
    /\ UNCHANGED <<tours, ti>>
    /\ StatusIdle

\* run_command('python3 post_scrape_cleanup.py', ...)
Cleanup ==
    /\ pc = "cleanup"
    /\ \E outcome \in CommandOutcomes :
         /\ result' = [result EXCEPT !.cleanup = outcome,
                                     !.unexpected = (outcome = "raise")]
         /\ pc' = AfterCleanup(outcome)
    /\ UNCHANGED <<ran, tours, ti>>
    /\ StatusIdle

\* set_status('completed', 100, ...), the last log line and the return
Complete ==
    /\ pc = "complete"
    /\ \/ /\ ran' = SetStatus(ran, "completed", 100)
          /\ pc' = "returned"
          /\ UNCHANGED result
       \/ /\ ToHandler
          /\ UNCHANGED ran
    /\ UNCHANGED <<tours, ti>>
    /\ StatusIdle

\* except Exception: set_status('error', 0, error_msg); when that write fails
\* too the exception leaves main
Handler ==
    /\ pc = "handler"
    /\ \/ /\ ran' = SetStatus(ran, "error", 0)
          /\ pc' = "returned"
       \/ /\ ran' = ran
          /\ pc' = "raised"
    /\ UNCHANGED <<result, tours, ti>>
    /\ StatusIdle

StatusNext ==
    \/ StartRun
    \/ Discover
    \/ ReadUrls
    \/ ReportError
    \/ StartScrape
    \/ ScrapeScript
    \/ ScrapeTour
    \/ SaveResults
    \/ StartCleanup
    \/ Cleanup
    \/ Complete
    \/ Handler

StatusSpec == StatusInit /\ [][StatusNext]_vars

----------------------------------------------------------------------------
(* Properties of extract_tour_data *)

\* the loop over the currencies has ended
LoopFinished == pc \in {"validate", "done"}

\* C1: when the loop of _extract_all_currency_prices has ended, every one of
\* the six currencies was attempted, whichever of them had its switch or
\* page request raise; a currency whose page was scanned and gave a price
\* above the floor has that price in its field, and a currency that failed
\* or gave no price has 0, never null, also in the returned record.
C1_CurrencyIsolation ==
    LoopFinished =>
        \A c \in CurrencySet :
            /\ attempts[c].state \in {"switch_error", "fetch_error", "scanned"}
            /\ attempts[c].price = 0 \/ attempts[c].price > PriceFloor
            /\ attempts[c].state = "scanned" /\ attempts[c].price > PriceFloor
                  => tour_data.price[c] = Some(attempts[c].price)
            /\ attempts[c].state # "scanned" \/ attempts[c].price = 0
                  => tour_data.price[c] = Some(0)
            /\ IsFullRecord(result) => result.price[c] = tour_data.price[c]

\* the first two currencies failed, one in each request, and a later one
\* has its price in the returned record
C1_LaterCurrencyPopulated ==
    /\ pc = "done"
    /\ IsFullRecord(result)
    /\ attempts["USD"].state = "switch_error"
    /\ attempts["NZD"].state = "fetch_error"
    /\ result.price["USD"] = Some(0)
    /\ result.price["NZD"] = Some(0)
    /\ attempts["AUD"].state = "scanned"
    /\ result.price["AUD"] # Some(0)

\* C2: once the page was fetched, an exception inside any extractor or
\* inside the validation pass never aborts the tour: the call returns a
\* full record, not the {url, error} form.
C2_ExtractorFaultIsolation ==
    (pc = "done" /\ ran # <<>>) => IsFullRecord(result)

\* the page was fetched and the tour information extractor ended the call
C2_AbortedByTourInformation ==
    /\ pc = "done"
    /\ page # NoPage
    /\ Last(ran) = "tour_information"
    /\ IsErrorForm(result)

\* C3: when the page fetch fails, the result is exactly the object
\* {url, error} with the URL of the call, no extractor has run, and neither
\* the result nor the record in the making has a tour_id.
C3_FetchFailureForm ==
    (pc = "done" /\ page = NoPage) =>
        /\ DOMAIN result = {"url", "error"}
        /\ result.url = url
        /\ result.error \in FetchFailures
        /\ ran = <<>>
        /\ tour_data.tour_id = <<>>

\* a call ended by a timeout of the page fetch
C3_FetchTimedOut ==
    /\ pc = "done"
    /\ page = NoPage
    /\ ran = <<>>
    /\ url # <<>>
    /\ result.error = "timeout"

\* C10: the tour_id of a returned record is the trailing segment of the URL,
\* an underscore and the first eight hex digits of the hash of the URL, and
\* it equals the tour_id of any earlier record of the same URL, whatever the
\* page, the session, the date and the extractor outcomes were.
C10_TourIdFromUrl ==
    IsFullRecord(result) =>
        /\ LET slug == Last(SplitOn(result.url, "/"))
           IN /\ Len(result.tour_id) = Len(slug) + 1 + ShortHashLen
              /\ SubSeq(result.tour_id, 1, Len(slug) + 1) = slug \o <<"_">>
              /\ \A k \in 1..ShortHashLen :
                    /\ result.tour_id[Len(slug) + 1 + k] \in
                          {HexDigits[d] : d \in 1..Len(HexDigits)}
                    /\ result.tour_id[Len(slug) + 1 + k] = MD5Hex(result.url)[k]
        /\ (~IsNone(remembered) /\ remembered[1].url = result.url)
              => remembered[1].tour_id = result.tour_id

\* a second record of a URL, extracted on another date than the first
C10_SameUrlAnotherDate ==
    /\ pc = "done"
    /\ IsFullRecord(result)
    /\ ~IsNone(remembered)
    /\ remembered[1].url = result.url
    /\ remembered[1].last_updated # result.last_updated

----------------------------------------------------------------------------
(* Properties of enhance_json_with_csv_data *)

\* the tours the loop has gone through
Enhanced == 1..Len(out_tours)

Named(i) == Field(tours[i], "tour_name", <<>>) # <<>>

DatesIn(i) == Field(tours[i], "starting_dates", <<>>)
DatesOut(i) == Field(out_tours[i], "starting_dates", <<>>)

\* the date string has the three segments and the two valid dates
ParsedStrings == [d \in DateStrings |-> ExtractDatesFromJsonString(d)]
Parsed(e) == ParsedStrings[e.text]
Parses(e) == ~IsNone(Parsed(e))

\* the tour has date strings and ledger rows: its list is rebuilt
Reconciled(i) ==
    /\ Named(i)
    /\ DatesIn(i) # <<>>
    /\ ~Falsy(LookupRows(csv_data, tours[i].tour_name))

RowsOf(i) == LookupRows(csv_data, tours[i].tour_name)[1]

FormsOf(dates) == {dates[j].form : j \in 1..Len(dates)}

\* C4 as claimed: after the merge the starting_dates list of every tour is
\* homogeneous, all bare strings or all objects, for any mix of parseable
\* and unparseable input strings.
C4_Homogeneous ==
    \A i \in Enhanced : Cardinality(FormsOf(DatesOut(i))) <= 1

\* C4 amended: the list is homogeneous whenever the input strings all parse
\* or all fail to parse; a list with both forms is that of a reconciled tour
\* with parseable strings, which became objects, and unparseable strings,
\* which stayed bare.
C4_HomogeneousWhenUniform ==
    \A i \in Enhanced :
        /\ Len(DatesOut(i)) = Len(DatesIn(i))
        /\ ((\A j \in 1..Len(DatesIn(i)) : Parses(DatesIn(i)[j]))
            \/ (\A j \in 1..Len(DatesIn(i)) : ~Parses(DatesIn(i)[j])))
              => Cardinality(FormsOf(DatesOut(i))) <= 1
        /\ Cardinality(FormsOf(DatesOut(i))) = 2
              => /\ Reconciled(i)
                 /\ \A j \in 1..Len(DatesIn(i)) :
                       DatesOut(i)[j].form = "object" <=> Parses(DatesIn(i)[j])

\* a reconciled tour with a matched and an unmatched string, both objects
C4_MatchedAndUnmatchedObjects ==
    \E i \in Enhanced :
        /\ Reconciled(i)
        /\ Len(DatesOut(i)) = 2
        /\ FormsOf(DatesOut(i)) = {"object"}
        /\ DatesOut(i)[1].prices # None
        /\ DatesOut(i)[2].prices = None

\* the rows that agree with the parsed pair on both dates
Hits(rows, p) ==
    {k \in 1..Len(rows) : rows[k].start_date = p.start /\ rows[k].end_date = p.end}

FirstOf(S) == CHOOSE k \in S : \A m \in S : k <= m

\* C5: for a tour with ledger rows and a date string that parses, the entry
\* is an object whose available_spaces and prices are non-null exactly when
\* some row has both the start and the end date of the string; they are then
\* those of the first such row, and both null otherwise.
C5_BothEndpointsMatch ==
    \A i \in Enhanced : Reconciled(i) =>
        \A j \in 1..Len(DatesIn(i)) : Parses(DatesIn(i)[j]) =>
            LET p == Parsed(DatesIn(i)[j])[1]
                hits == Hits(RowsOf(i), p)
                o == DatesOut(i)[j]
            IN /\ o.form = "object"
               /\ o.date = DatesIn(i)[j].text
               /\ o.status = p.status
               /\ (o.available_spaces # None /\ o.prices # None) <=> hits # {}
               /\ hits = {} => o.available_spaces = None /\ o.prices = None
               /\ hits # {} =>
                     /\ o.available_spaces = Some(RowsOf(i)[FirstOf(hits)].available_spaces)
                     /\ o.prices = Some(RowsOf(i)[FirstOf(hits)].prices)

\* two rows match the first string and the first of them is used; a row
\* has the start date of the second string only, which gets the nulls
C5_FirstRowAndOneEndpoint ==
    \E i \in Enhanced :
        /\ Reconciled(i)
        /\ Len(DatesOut(i)) = 2
        /\ Parses(DatesIn(i)[1]) /\ Parses(DatesIn(i)[2])
        /\ Cardinality(Hits(RowsOf(i), Parsed(DatesIn(i)[1])[1])) = 2
        /\ DatesOut(i)[1].available_spaces = Some(3)
        /\ \E k \in 1..Len(RowsOf(i)) :
              /\ RowsOf(i)[k].start_date = Parsed(DatesIn(i)[2])[1].start
              /\ RowsOf(i)[k].end_date # Parsed(DatesIn(i)[2])[1].end
        /\ DatesOut(i)[2].available_spaces = None
        /\ DatesOut(i)[2].prices = None

\* C6: in a tour with ledger rows a date string that fails to parse stays in
\* the list as the same bare string at the same position, is not made an
\* object, and the other strings of the tour are still processed.
C6_UnparseableKeptBare ==
    \A i \in Enhanced : Reconciled(i) =>
        /\ Len(DatesOut(i)) = Len(DatesIn(i))
        /\ \A j \in 1..Len(DatesIn(i)) :
              IF Parses(DatesIn(i)[j])
              THEN DatesOut(i)[j].form = "object" /\ DatesOut(i)[j].date = DatesIn(i)[j].text
              ELSE DatesOut(i)[j] = DatesIn(i)[j] /\ DatesOut(i)[j].form = "string"

\* a string of two segments is kept and the string after it is processed
C6_KeptAndNextProcessed ==
    \E i \in Enhanced :
        /\ Reconciled(i)
        /\ Len(DatesIn(i)) = 2
        /\ Len(SplitDash(DatesIn(i)[1].text)) < MinParts
        /\ DatesOut(i)[1] = DatesIn(i)[1]
        /\ DatesOut(i)[2].form = "object"
        /\ DatesOut(i)[2].available_spaces # None

NonNegative(v) == ~IsNone(v) /\ v[1] >= 0

\* C7: every price field of every tour record is a non-negative integer and
\* never null, in the record extract_tour_data returns and in the record the
\* merge writes after replacing the price from the global price table.
C7_PricesNonNegative ==
    /\ IsFullRecord(result) => \A c \in CurrencySet : NonNegative(result.price[c])
    /\ \A i \in Enhanced :
          "price" \in DOMAIN out_tours[i] =>
              \A c \in CurrencySet : NonNegative(out_tours[i].price[c])

\* the written list has a tour with a null and a negative price
C7_NullAndNegativeWritten ==
    /\ pc = "m_written"
    /\ \E i \in Enhanced :
          /\ Named(i)
          /\ out_tours[i].price["EUR"] = None
          /\ out_tours[i].price["GBP"] = None
          /\ out_tours[i].price["USD"] = Some(0 - 5)

\* C8: a named tour whose exact or normalized name is a key of the global
\* price table has its price replaced as a whole by that entry, with or
\* without starting dates, ledger rows or matching dates; a tour with no
\* such key keeps its price.
C8_GlobalPriceOverwrite ==
    \A i \in Enhanced : Named(i) =>
        LET n == tours[i].tour_name
            nn == NormalizeTourName(n)
        IN IF n \in DOMAIN global_prices
           THEN out_tours[i].price = global_prices[n]
           ELSE IF nn \in DOMAIN global_prices
           THEN out_tours[i].price = global_prices[nn]
           ELSE out_tours[i].price = tours[i].price

\* a tour without starting dates and without ledger rows got the prices of
\* the table under its normalized name
C8_ReplacedWithoutDates ==
    \E i \in Enhanced :
        /\ Named(i)
        /\ DatesIn(i) = <<>>
        /\ tours[i].tour_name \notin DOMAIN csv_data
        /\ tours[i].tour_name \notin DOMAIN global_prices
        /\ NormalizeTourName(tours[i].tour_name) \in DOMAIN global_prices
        /\ out_tours[i].price # tours[i].price

\* d[k] when k is a key of d, else d[alt] when alt is one, else None
ExactFirst(d, k, alt) ==
    IF k \in DOMAIN d THEN Some(d[k]) ELSE Get(d, alt)

\* C9: the lookup of a tour name in the ledger and in the global price table
\* uses the exact name when it is a key and the normalized name only when
\* it is not; with both keys present the data of the exact key is used.
C9_ExactNameFirst ==
    \A i \in Enhanced : Named(i) =>
        LET n == tours[i].tour_name
            rows == ExactFirst(csv_data, n, NormalizeTourName(n))
            prices == ExactFirst(global_prices, n, NormalizeTourName(n))
        IN /\ out_tours[i].price = IF IsNone(prices) THEN tours[i].price ELSE prices[1]
           /\ DatesOut(i) =
                 IF Falsy(rows) THEN DatesIn(i)
                 ELSE [j \in 1..Len(DatesIn(i)) |-> ReconcileEntry(DatesIn(i)[j], rows[1])]

\* the exact name is a key with no rows, and the dates were reconciled with
\* the rows of the normalized name
C9_NormalizedRowsUsed ==
    \E i \in Enhanced :
        /\ Named(i)
        /\ tours[i].tour_name \in DOMAIN csv_data
        /\ csv_data[tours[i].tour_name] = <<>>
        /\ NormalizeTourName(tours[i].tour_name) # tours[i].tour_name
        /\ DatesOut(i) # <<>>
        /\ DatesOut(i)[1].form = "object"
        /\ DatesOut(i)[1].available_spaces = Some(3)

----------------------------------------------------------------------------
(* Properties of _extract_tour_name *)

GenericNames == {<<"t","o","u","r","s">>, <<"t","o","u","r">>, <<"b","a","c","k","p","a","c","k","i","n","g"," ","t","o","u","r","s">>, <<"g","r","o","u","p"," ","t","o","u","r","s">>,
                 <<"b","a","c","k","p","a","c","k","i","n","g">>, <<"a","d","v","e","n","t","u","r","e">>}

NameSet == pc = "tour_name_done"

HeadingsFound == {k \in 1..Len(page.h1) : page.h1[k].found}

\* C11: the name the chain sets is empty, or a text of more than 3 characters
\* that is not a generic name in any case and does not start with 'book'; a
\* page whose headings all read 'Tours' or 'Adventure' and whose title is
\* absent or rejected gets the empty name.
C11_NoGenericName ==
    NameSet =>
        LET name == tour_data.tour_name
        IN /\ \/ name = <<>>
              \/ /\ Len(name) > 3
                 /\ Lower(name) \notin GenericNames
                 /\ SubSeq(Lower(name), 1, 4) # <<"b","o","o","k">>
           /\ ((\A k \in HeadingsFound : page.h1[k].text \in {<<"T","o","u","r","s">>, <<"A","d","v","e","n","t","u","r","e">>})
               /\ (~page.title.found \/ page.title.text \in {<<"H","o","m","e">>, <<"T","o","u","r","s"," ","-"," ","B","T">>}))
                 => name = <<>>

\* the only heading reads 'Tours', the title does not pass: the name is empty
C11_ToursHeadingRejected ==
    /\ NameSet
    /\ Cardinality(HeadingsFound) = 1
    /\ page.h1[Len(page.h1)].text = <<"T","o","u","r","s">>
    /\ page.title.found
    /\ page.title.text = <<"T","o","u","r","s"," ","-"," ","B","T">>
    /\ tour_data.tour_name = <<>>

\* the candidate of strategy k: the seven selectors, then the cleaned title
Candidate(k) ==
    IF k <= Len(page.h1) THEN Strip(page.h1[k].text)
    ELSE CleanTitle(Strip(page.title.text))

Succeeds(k) ==
    IF k <= Len(page.h1)
    THEN page.h1[k].found /\ ValidH1Name(Candidate(k))
    ELSE page.title.found /\ ValidTitleName(Candidate(k))

Strategies == 1..(Len(page.h1) + 1)

\* C17: the strategies run in the order of the seven selectors and then the
\* title; the name is the candidate of the earliest strategy that has one
\* which passes validation, and '' when no strategy has.
C17_EarliestStrategyWins ==
    NameSet =>
        /\ Len(page.h1) = 7
        /\ \A k \in Strategies :
              (Succeeds(k) /\ \A m \in 1..(k - 1) : ~Succeeds(m))
                 => tour_data.tour_name = Candidate(k)
        /\ (\A k \in Strategies : ~Succeeds(k)) => tour_data.tour_name = <<>>

\* an early heading fails validation, a later one passes and is the name,
\* though the title passes too
C17_FallThroughThenWin ==
    /\ NameSet
    /\ \E i, j \in HeadingsFound :
          /\ i < j
          /\ ~Succeeds(i)
          /\ Succeeds(j)
          /\ tour_data.tour_name = Candidate(j)
    /\ Succeeds(Len(page.h1) + 1)
    /\ Candidate(Len(page.h1) + 1) # tour_data.tour_name

----------------------------------------------------------------------------
(* Properties of _extract_country_from_articles *)

MultiWordCountries == {<<"n","e","w","-","z","e","a","l","a","n","d">>, <<"s","o","u","t","h","-","k","o","r","e","a">>, <<"c","o","s","t","a","-","r","i","c","a">>,
                       <<"s","o","u","t","h","-","a","f","r","i","c","a">>, <<"s","r","i","-","l","a","n","k","a">>}

\* the known countries the trailing segment of the URL contains
UrlTokens ==
    {UrlCountries[k] : k \in {x \in 1..Len(UrlCountries) :
                                 Contains(UrlSlug(url), UrlCountries[x])}}

\* the countries a link of the page names right after /blog/
DirectLinkTokens ==
    {BlogCountries[k] : k \in {x \in 1..Len(BlogCountries) :
        \E i \in 1..Len(page.links) :
            Contains(Lower(page.links[i]), BlogPrefix \o BlogCountries[x])}}

AcceptedLinks == {i \in 1..Len(page.links) : AcceptedBlogLink(page.links[i])}

\* C13: a known country in the trailing segment of the URL decides the
\* country whatever the links are, a multi-word name before any single-word
\* one; the direct country links are used only when the URL has none, the
\* other blog links only when both have none, and with nothing found the
\* country is the empty string.
C13_CountryTiers ==
    pc = "country_done" =>
        LET country == tour_data.country
        IN /\ UrlTokens # {} =>
                 /\ country \in UrlTokens
                 /\ country = ExtractCountry(url, <<>>)
                 /\ UrlTokens \cap MultiWordCountries # {}
                       => country \in MultiWordCountries
           /\ (UrlTokens = {} /\ DirectLinkTokens # {}) => country \in DirectLinkTokens
           /\ (UrlTokens = {} /\ DirectLinkTokens = {} /\ AcceptedLinks # {}) =>
                 country = CityToCountry(BlogToken(
                     page.links[CHOOSE i \in AcceptedLinks :
                                    \A j \in AcceptedLinks : i <= j]))
           /\ (UrlTokens = {} /\ DirectLinkTokens = {} /\ AcceptedLinks = {})
                 => country = <<>>

\* the segment has 'bali' and 'sri-lanka', a link names thailand: sri-lanka
C13_MultiWordFromUrl ==
    /\ pc = "country_done"
    /\ <<"b","a","l","i">> \in UrlTokens
    /\ <<"s","r","i","-","l","a","n","k","a">> \in UrlTokens
    /\ <<"t","h","a","i","l","a","n","d">> \in DirectLinkTokens
    /\ tour_data.country = <<"s","r","i","-","l","a","n","k","a">>

\* _extract_tour_dates has run
DatesSet == pc = "starting_dates_done"

\* a request of the method failed, the page named no numeric tour id, or the
\* dates response was not JSON or had no 'html' field
DatesFailed ==
    \/ faults > 0
    \/ ~page.dates.numeric_id_found
    \/ ~page.dates.is_json
    \/ ~page.dates.has_html

DatesFetched == DatesSet /\ ~DatesFailed

\* C12: whenever the numeric tour id is not resolved, a request fails, the
\* response is not JSON or the JSON has no 'html' field, starting_dates is
\* left as the empty list: no partial list, no entry held before the call
C12_FailureLeavesEmpty ==
    DatesSet /\ DatesFailed => tour_data.starting_dates = <<>>

\* the dates request failed for a page whose fragment has date rows
C12_RequestFailedWithRows ==
    /\ DatesSet
    /\ faults > 0
    /\ page.dates.numeric_id_found /\ page.dates.is_json /\ page.dates.has_html
    /\ TableEntries(page.dates.rows) # <<>>
    /\ tour_data.starting_dates = <<>>

\* the rows of the fragment whose first cell is a date range
DateRangeRows ==
    {i \in 1..Len(page.dates.rows) :
        page.dates.rows[i].has_td /\ IsDateRange(page.dates.rows[i].cell)}

\* the status the ordered rules give a row
Status(row) ==
    LET t == RowText(row)
    IN CASE Contains(t, <<"b","o","o","k"," ","n","o","w">>) \/ Contains(t, <<"a","v","a","i","l","a","b","l","e">>) -> BookNow
         [] /\ ~(Contains(t, <<"b","o","o","k"," ","n","o","w">>) \/ Contains(t, <<"a","v","a","i","l","a","b","l","e">>))
            /\ (Contains(t, <<"n","o"," ","a","v","a","i","l","a","b","i","l","i","t","y">>) \/ Contains(t, <<"f","u","l","l">>)
                \/ Contains(t, <<"s","o","l","d"," ","o","u","t">>)) -> NoAvailability
         [] /\ ~(Contains(t, <<"b","o","o","k"," ","n","o","w">>) \/ Contains(t, <<"a","v","a","i","l","a","b","l","e">>))
            /\ ~(Contains(t, <<"n","o"," ","a","v","a","i","l","a","b","i","l","i","t","y">>) \/ Contains(t, <<"f","u","l","l">>)
                 \/ Contains(t, <<"s","o","l","d"," ","o","u","t">>))
            /\ Contains(t, <<"l","i","m","i","t","e","d">>) -> Limited
         [] OTHER -> Available

EndsIn(e, status) ==
    Len(e) > Len(status) /\ SubSeq(e, Len(e) - Len(status) + 1, Len(e)) = status

Emitted == {tour_data.starting_dates[i] : i \in 1..Len(tour_data.starting_dates)}

\* C19: the entries of a fetched fragment with date-range rows are those
\* rows' dates with the status of the first applicable rule (book now or
\* available, then no availability, full or sold out, then limited, then
\* Available); without such a row every entry comes from the text scan and
\* is Available; every entry ends in one of the four statuses
C19_StatusByFirstRule ==
    DatesFetched =>
        /\ DateRangeRows # {} =>
              Emitted = {DateEntry(page.dates.rows[i].cell, Status(page.dates.rows[i])) :
                            i \in DateRangeRows}
        /\ DateRangeRows = {} =>
              /\ \A e \in Emitted : EndsIn(e, Available)
              /\ Emitted = {DateEntry(r, Available) :
                               r \in {FindRanges(page.dates.text, 1)[k] :
                                         k \in 1..Len(FindRanges(page.dates.text, 1))}}
        /\ \A e \in Emitted :
              \E s \in {BookNow, NoAvailability, Limited, Available} : EndsIn(e, s)

\* a row naming 'limited' and 'available' was emitted as Book Now, beside a
\* text with date ranges that was not scanned
C19_SeveralRulesApply ==
    /\ DatesFetched
    /\ \E i \in DateRangeRows :
          /\ Contains(RowText(page.dates.rows[i]), <<"l","i","m","i","t","e","d">>)
          /\ Contains(RowText(page.dates.rows[i]), <<"a","v","a","i","l","a","b","l","e">>)
          /\ DateEntry(page.dates.rows[i].cell, BookNow) \in Emitted
    /\ FindRanges(page.dates.text, 1) # <<>>
    /\ Len(tour_data.starting_dates) = 1

\* the entries found, in source order: those of the table, or of the text
\* when the table gave none
Found ==
    IF TableEntries(page.dates.rows) # <<>> THEN TableEntries(page.dates.rows)
    ELSE TextEntries(page.dates.text)

FirstAt(s, e) == CHOOSE i \in 1..Len(s) : s[i] = e /\ \A j \in 1..(i - 1) : s[j] # e

\* C20: starting_dates has no two equal entries, holds exactly the distinct
\* entries found, and orders them by their first occurrence
C20_DistinctInFirstSeenOrder ==
    DatesFetched =>
        LET out == tour_data.starting_dates
        IN /\ \A i, j \in 1..Len(out) : i # j => out[i] # out[j]
           /\ Emitted = {Found[i] : i \in 1..Len(Found)}
           /\ \A i, j \in 1..Len(out) :
                 i < j => FirstAt(Found, out[i]) < FirstAt(Found, out[j])

\* an entry found twice, around another one, is emitted once and first
C20_RepeatedEntryDropped ==
    /\ DatesFetched
    /\ Len(Found) = 3
    /\ Found[1] = Found[3] /\ Found[1] # Found[2]
    /\ tour_data.starting_dates = <<Found[1], Found[2]>>

\* the tour facts the loop has passed that reached a parser whose label
\* holds the word w, and the text each handed to it
Passed(w) ==
    {i \in 1..(cur - 1) :
        /\ page.info_items[i].has_b /\ page.info_items[i].has_span
        /\ Contains(Lower(page.info_items[i].key), w)}

LastPassed(w) == CHOOSE i \in Passed(w) : \A k \in Passed(w) : k <= i

Handed(i) == Strip(page.info_items[i].value)

InLoop == pc \in {"tour_info_items", "tour_info_items_done"}

\* the numbers of a text: the integers of its maximal runs of digits, in
\* order
DigitRuns(t) ==
    {r \in (1..Len(t)) \X (1..Len(t)) :
        /\ r[1] <= r[2]
        /\ \A k \in r[1]..r[2] : IsDigit(t[k])
        /\ (r[1] = 1 \/ ~IsDigit(t[r[1] - 1]))
        /\ (r[2] = Len(t) \/ ~IsDigit(t[r[2] + 1]))}

RunBefore(t, r) == {q \in DigitRuns(t) : q[1] < r[1]}

\* the k-th number of a text
NthNumber(t, k) ==
    LET r == CHOOSE q \in DigitRuns(t) : Cardinality(RunBefore(t, q)) = k - 1
    IN IntOf(SubSeq(t, r[1], r[2]))

\* C15: _parse_age_range stores the text it is handed as display; with two
\* or more numbers in the text min is the first and max the second, with
\* exactly one min is that number and max is 0, with none both are 0,
\* whatever an earlier call had stored
C15_AgeRangeFromNumbers ==
    InLoop /\ Passed(<<"a","g","e">>) # {} =>
        LET t == Handed(LastPassed(<<"a","g","e">>))
            n == Cardinality(DigitRuns(t))
            age == tour_data.tour_information.age_range
        IN /\ age.display = t
           /\ n >= 2 => age.min = NthNumber(t, 1) /\ age.max = NthNumber(t, 2)
           /\ n = 1 => age.min = NthNumber(t, 1) /\ age.max = 0
           /\ n = 0 => age.min = 0 /\ age.max = 0

\* an age text with one number came after one with two
C15_OneNumberAfterTwo ==
    /\ InLoop
    /\ Cardinality(Passed(<<"a","g","e">>)) = 2
    /\ \E i \in Passed(<<"a","g","e">>) :
          i < LastPassed(<<"a","g","e">>) /\ Cardinality(DigitRuns(Handed(i))) >= 2
    /\ Cardinality(DigitRuns(Handed(LastPassed(<<"a","g","e">>)))) = 1
    /\ tour_data.tour_information.age_range.min > 0
    /\ tour_data.tour_information.age_range.max = 0

\* the runs of digits of a text that directly precede 'day', with or without
\* white space between, whatever the case of the letters
RunsBeforeDay(t) ==
    {r \in DigitRuns(t) :
        \E d \in (r[2] + 1)..(Len(t) - 2) :
            /\ \A k \in (r[2] + 1)..(d - 1) : t[k] = " "
            /\ Lower(SubSeq(t, d, d + 2)) = <<"d","a","y">>}

\* C16: _parse_duration stores the text it is handed as duration.display and
\* sets duration.days to the integer directly before 'day' or 'days', in any
\* case, or to 0 when the text has no such number, whatever an earlier
\* call had stored
C16_DaysFromText ==
    InLoop /\ Passed(<<"l","e","n","g","t","h">>) # {} =>
        LET t == Handed(LastPassed(<<"l","e","n","g","t","h">>))
            runs == RunsBeforeDay(t)
            first == CHOOSE r \in runs : \A q \in runs : r[1] <= q[1]
            duration == tour_data.tour_information.duration
        IN /\ duration.display = t
           /\ runs # {} => duration.days = IntOf(SubSeq(t, first[1], first[2]))
           /\ runs = {} => duration.days = 0

\* a length text without a day count came after one with a day count
C16_NoDayCountAfterOne ==
    /\ InLoop
    /\ Cardinality(Passed(<<"l","e","n","g","t","h">>)) = 2
    /\ \E i \in Passed(<<"l","e","n","g","t","h">>) :
          i < LastPassed(<<"l","e","n","g","t","h">>) /\ RunsBeforeDay(Handed(i)) # {}
    /\ RunsBeforeDay(Handed(LastPassed(<<"l","e","n","g","t","h">>))) = {}
    /\ Handed(LastPassed(<<"l","e","n","g","t","h">>)) # <<>>
    /\ tour_data.tour_information.duration.days = 0

\* the itinerary as it was before the first validation pass
Unvalidated == ExtractItinerary(page.cards, 1, <<>>)

\* C14: after one validation pass and after two, every meals_incl list has
\* the length and order it had before, each element equal to 'Brekfast'
\* replaced by 'Breakfast' and every other element as it was
C14_MealTypoFixedOnce ==
    pc = "validate" /\ ran # <<>> =>
        /\ DOMAIN tour_data.itinerary = DOMAIN Unvalidated
        /\ \A k \in DOMAIN Unvalidated :
              LET old == Unvalidated[k].meals_incl
                  new == tour_data.itinerary[k].meals_incl
              IN /\ Len(new) = Len(old)
                 /\ \A i \in 1..Len(old) :
                       new[i] = IF old[i] = <<"B","r","e","k","f","a","s","t">> THEN <<"B","r","e","a","k","f","a","s","t">> ELSE old[i]

\* two passes over days with the misspelling, alone and inside another
\* element
C14_TwoPassesOverTypos ==
    /\ pc = "validate"
    /\ Len(ran) = 2
    /\ \E k \in DOMAIN Unvalidated :
          \E i \in 1..Len(Unvalidated[k].meals_incl) :
              /\ Unvalidated[k].meals_incl[i] = <<"B","r","e","k","f","a","s","t">>
              /\ tour_data.itinerary[k].meals_incl[i] = <<"B","r","e","a","k","f","a","s","t">>
    /\ \E k \in DOMAIN Unvalidated :
          \E i \in 1..Len(Unvalidated[k].meals_incl) :
              /\ Unvalidated[k].meals_incl[i] = <<"B","r","e","k","f","a","s","t"," ","b","o","x">>
              /\ tour_data.itinerary[k].meals_incl[i] = <<"B","r","e","k","f","a","s","t"," ","b","o","x">>

\* the currencies whose switch request was followed by the switch request
\* of the next currency
FollowedBySwitch == {Currencies[i] : i \in 1..(cur - 2)}

\* C18: between every two consecutive currency-switch requests there is a
\* pause, whether the earlier currency's iteration gave a price, gave none
\* or ended in an error
C18_PauseBetweenSwitches ==
    \A c \in FollowedBySwitch : attempts[c].paused

\* the switch request of the first currency raised, the page request of the
\* third raised, and the loop went on to the next switch without a pause
\* both times, while it paused after the second, which gave no price
C18_NoPauseAfterError ==
    /\ cur > 4
    /\ attempts[Currencies[1]].state = "switch_error"
    /\ ~attempts[Currencies[1]].paused
    /\ attempts[Currencies[2]].state = "scanned"
    /\ attempts[Currencies[2]].price = 0
    /\ attempts[Currencies[2]].paused
    /\ attempts[Currencies[3]].state = "fetch_error"
    /\ ~attempts[Currencies[3]].paused

ColourSet == pc = "tour_colour_done"

\* the classes of the page, in document order
PageClasses == Flatten(page.elements)

\* the class holds the priority prefix s followed by the colour token k
PrefixedToken(cls, s, k) ==
    Contains(Lower(cls), PrioritySelectors[s] \o ColourNames[k])

\* the (prefix, token) pairs some class of the page holds
PrefixHits ==
    {sk \in (1..Len(PrioritySelectors)) \X (1..NumColours) :
        \E i \in 1..Len(PageClasses) : PrefixedToken(PageClasses[i], sk[1], sk[2])}

\* the first pair, prefixes in their order and tokens in table order
FirstPrefixHit ==
    CHOOSE sk \in PrefixHits :
        \A o \in PrefixHits :
            sk[1] < o[1] \/ (sk[1] = o[1] /\ sk[2] <= o[2])

\* the tokens a class matches for the count, and the longest of them, the
\* one earlier in the table among tokens of one length; 0 when none matches
TokensOf(cls) ==
    {k \in 1..NumColours :
        \/ Contains(Lower(cls), <<"-">> \o ColourNames[k])
        \/ EndsWith(Lower(cls), ColourNames[k])}

LongestToken(cls) ==
    IF TokensOf(cls) = {} THEN 0
    ELSE CHOOSE k \in TokensOf(cls) :
            \A o \in TokensOf(cls) \ {k} :
                \/ Len(ColourNames[k]) > Len(ColourNames[o])
                \/ Len(ColourNames[k]) = Len(ColourNames[o]) /\ k < o

CountOf(k) == Cardinality({i \in 1..Len(PageClasses) : LongestToken(PageClasses[i]) = k})

FirstCountOf(k) ==
    CHOOSE i \in 1..Len(PageClasses) :
        LongestToken(PageClasses[i]) = k
          /\ \A j \in 1..(i - 1) : LongestToken(PageClasses[j]) # k

Counted == {k \in 1..NumColours : CountOf(k) > 0}

Winner ==
    CHOOSE k \in Counted :
        \A o \in Counted \ {k} :
            \/ CountOf(k) > CountOf(o)
            \/ CountOf(k) = CountOf(o) /\ FirstCountOf(k) < FirstCountOf(o)

OnlyClassIs(s, k) ==
    page.elements = <<<<PrioritySelectors[s] \o ColourNames[k]>>>>

\* the colour the priority path takes a class for: the token of its first
\* prefix/token hit; 0 when it has none
PriorityColourOf(cls) ==
    LET hits == {sk \in (1..Len(PrioritySelectors)) \X (1..NumColours) :
                    PrefixedToken(cls, sk[1], sk[2])}
    IN IF hits = {} THEN 0
       ELSE (CHOOSE sk \in hits :
                \A o \in hits : sk[1] < o[1] \/ (sk[1] = o[1] /\ sk[2] <= o[2]))[2]

TrailingSegment(u) ==
    LET slashes == {i \in 1..Len(u) : u[i] = "/"}
    IN IF slashes = {} THEN u
       ELSE SubSeq(u, (CHOOSE i \in slashes : \A j \in slashes : j <= i) + 1, Len(u))

IsLetter(c) == IsUpper(c) \/ IsLower(c)

\* hyphens turned into spaces, the first letter of each word in upper case
\* and its other letters in lower case
SpacedAndTitled(t) ==
    [i \in 1..Len(t) |->
        IF t[i] = "-" THEN " "
        ELSE IF i = 1 \/ ~IsLetter(t[i - 1]) THEN UpperChar(t[i])
        ELSE LowerChar(t[i])]

Returned == pc = "done" /\ IsFullRecord(result)

\* C22: in a returned record, a name the selector chain left empty is the
\* URL's trailing segment with hyphens as spaces, title-cased, and a name
\* the chain found is the name of the record, unchanged by the validation
C22_NameFallbackFromUrl ==
    Returned =>
        IF ExtractTourName(page) = <<>>
        THEN result.tour_name = SpacedAndTitled(TrailingSegment(result.url))
        ELSE result.tour_name = ExtractTourName(page)

\* the chain found no name and the record is named after the URL
C22_NamedAfterUrl ==
    /\ Returned
    /\ ExtractTourName(page) = <<>>
    /\ result.url = <<"h","t","t","p","s",":","/","/","b","t",".","c","o","m","/","t","/","b","a","l","i","-","t","r","i","p">>
    /\ result.tour_name = <<"B","a","l","i"," ","T","r","i","p">>

\* C25: every full record extract_tour_data returns has a non-empty
\* tour_name, whatever the URL ends with and whatever the chain found
C25_NameNeverEmpty ==
    Returned => result.tour_name # <<>>

\* the chain found no name, the URL ends with '/', and the record returned
\* has an empty tour_name
C25_EmptyNameForSlashUrl ==
    /\ Returned
    /\ ExtractTourName(page) = <<>>
    /\ Last(result.url) = "/"
    /\ result.tour_name = <<>>

\* the currency of the iteration of the loop that ended last
LastCurrency == Currencies[cur - 1]

\* C23: a non-zero price is stored under a currency only when that
\* currency's switch request succeeded, so that the page it was read from
\* was served in that currency; a switch the server rejected never has the
\* price of the currency selected before recorded under the new one
C23_PriceOnlyAfterSwitch ==
    pc \in {"price", "validate"} /\ cur > 1
      /\ attempts[LastCurrency].state = "scanned"
      /\ attempts[LastCurrency].price # 0
        => /\ session = LastCurrency
           /\ tour_data.price[LastCurrency] = Some(attempts[LastCurrency].price)

\* the switch to NZD was rejected, the page was served in USD, and the USD
\* price is stored under NZD
C23_PriceOfEarlierCurrency ==
    /\ pc = "price"
    /\ cur = 3
    /\ session = "USD"
    /\ attempts["USD"].state = "scanned"
    /\ attempts["NZD"].state = "scanned"
    /\ attempts["NZD"].price # 0
    /\ tour_data.price["NZD"] = tour_data.price["USD"]
    /\ tour_data.price["NZD"] = Some(attempts["NZD"].price)

\* date a is not later than date b
NotLater(a, b) ==
    \/ a.y < b.y
    \/ a.y = b.y /\ a.m < b.m
    \/ a.y = b.y /\ a.m = b.m /\ a.d <= b.d

\* C24: for every display string the merge parsed, the start date returned
\* by extract_dates_from_json_string is not later than the end date, also
\* for a range from December into January of the next year
C24_StartNotAfterEnd ==
    \A i \in Enhanced :
        Reconciled(i) =>
            \A j \in 1..Len(DatesIn(i)) :
                Parses(DatesIn(i)[j]) =>
                    NotLater(Parsed(DatesIn(i)[j])[1].start, Parsed(DatesIn(i)[j])[1].end)

\* a reconciled tour has the string 28 Dec - 3 Jan 2026, parsed to a start
\* in December 2026 and an end in January 2026
C24_DecemberAfterJanuary ==
    \E i \in Enhanced :
        /\ Reconciled(i)
        /\ \E j \in 1..Len(DatesIn(i)) :
              /\ DatesIn(i)[j].text[2] = <<"D","e","c">>
              /\ Parses(DatesIn(i)[j])
              /\ Parsed(DatesIn(i)[j])[1].start = MkDate(2026, 12, 28)
              /\ Parsed(DatesIn(i)[j])[1].end = MkDate(2026, 1, 3)
              /\ DatesOut(i)[j].form = "object"

\* the positions of the separators ' - ' of a display text, each dash
\* token between two others
Separators(toks) == {k \in 2..(Len(toks) - 1) : toks[k] = Dash}

\* the third ' - ' separated segment of a display text: what lies between
\* its second separator and its third, or its end
ThirdSegment(toks) ==
    LET seps == Separators(toks)
        second == CHOOSE k \in seps : Cardinality({x \in seps : x < k}) = 1
        later == {k \in seps : k > second}
        stop == IF later = {} THEN Len(toks) + 1
                ELSE CHOOSE k \in later : \A x \in later : k <= x
    IN SubSeq(toks, second + 1, stop - 1)

\* C26: reconciliation keeps the length and the order of starting_dates:
\* entry j of the output comes from string j of the input alone, and an
\* enriched object has that string unchanged as its date and the string's
\* third ' - ' separated segment as its status
C26_EntryFromItsString ==
    \A i \in Enhanced :
        Reconciled(i) =>
            /\ Len(DatesOut(i)) = Len(DatesIn(i))
            /\ \A j \in 1..Len(DatesIn(i)) :
                  /\ DatesOut(i)[j].form = "string" => DatesOut(i)[j] = DatesIn(i)[j]
                  /\ DatesOut(i)[j].form = "object" =>
                        /\ DatesOut(i)[j].date = DatesIn(i)[j].text
                        /\ DatesOut(i)[j].status = ThirdSegment(DatesIn(i)[j].text)
                  /\ \A k \in 1..Len(DatesIn(i)) :
                        DatesIn(i)[k] = DatesIn(i)[j] => DatesOut(i)[k] = DatesOut(i)[j]

\* a reconciled list of two different strings, the first with four
\* segments, both enriched in their places
C26_FourSegmentsInPlace ==
    \E i \in Enhanced :
        /\ Reconciled(i)
        /\ Len(DatesIn(i)) = 2
        /\ Cardinality(Separators(DatesIn(i)[1].text)) = 3
        /\ DatesIn(i)[2].text # DatesIn(i)[1].text
        /\ DatesOut(i)[1].form = "object"
        /\ DatesOut(i)[1].status = <<<<"B","o","o","k">>, <<"N","o","w">>>>
        /\ DatesOut(i)[2].form = "object"
        /\ DatesOut(i)[2].date = DatesIn(i)[2].text

\* neither the tour's name nor its normalized form has ledger rows
NoLedgerRows(i) ==
    \A key \in {tours[i].tour_name, NormalizeTourName(tours[i].tour_name)} :
        IsNone(Get(csv_data, key)) \/ Get(csv_data, key)[1] = <<>>

\* C27: the merge changes no field of a tour but starting_dates and price:
\* a tour without a tour_name, the {url, error} record included, is
\* written as it was, and a tour whose name has no ledger rows keeps its
\* starting_dates as the bare strings they were
C27_OnlyDatesAndPrice ==
    \A i \in Enhanced :
        /\ DOMAIN out_tours[i] = DOMAIN tours[i]
        /\ \A f \in DOMAIN tours[i] \ {"starting_dates", "price"} :
              out_tours[i][f] = tours[i][f]
        /\ ~Named(i) => out_tours[i] = tours[i]
        /\ Named(i) /\ NoLedgerRows(i) => DatesOut(i) = DatesIn(i)

\* the error record and a tour without a name went through unchanged, and
\* a named tour without ledger rows got the global price and kept its dates
C27_PriceWithoutLedger ==
    /\ Len(out_tours) = Len(tours)
    /\ \E i \in Enhanced : IsErrorForm(tours[i]) /\ out_tours[i] = tours[i]
    /\ \E i \in Enhanced :
          /\ ~IsErrorForm(tours[i]) /\ ~Named(i)
          /\ tours[i].starting_dates # <<>> /\ out_tours[i] = tours[i]
    /\ \E i \in Enhanced :
          /\ Named(i) /\ NoLedgerRows(i)
          /\ DatesIn(i) # <<>>
          /\ DatesOut(i) = DatesIn(i)
          /\ out_tours[i].price # tours[i].price

\* the countries the extractor knows: the names of its two lists
KnownCountries ==
    {UrlCountries[k] : k \in 1..Len(UrlCountries)}
      \cup {BlogCountries[k] : k \in 1..Len(BlogCountries)}

\* C28: after country inference the country is the empty string or a known
\* country; the first token of a blog link that is no known country, no
\* mapped city and no denylisted term never becomes the country
C28_CountryIsKnown ==
    pc = "country_done" => tour_data.country \in {<<>>} \cup KnownCountries

\* the only link of the page is /blog/travel-tips, the URL names no
\* country, and the country stored is 'travel'
C28_BlogTokenStored ==
    /\ pc = "country_done"
    /\ page.links = <<<<"/","b","l","o","g","/","t","r","a","v","e","l","-","t","i","p","s">>>>
    /\ tour_data.country = <<"t","r","a","v","e","l">>
    /\ tour_data.country \notin KnownCountries
    /\ tour_data.country \notin NonCountries
    /\ CityToCountry(tour_data.country) = tour_data.country

\* the statuses that end a run
Terminal == {"completed", "error"}

LastStatus == StatusLog[Len(StatusLog)].status

\* C30: when main returns the last status written is 'completed' or 'error';
\* 'completed' carries progress 100 and is written only after the discovery
\* and the scraping step succeeded; a failed cleanup does not keep it from
\* being written; and nothing is written after 'error' or 'completed'
C30_RunEndsInTerminalStatus ==
    /\ pc = "returned" =>
         /\ StatusLog # <<>>
         /\ LastStatus \in Terminal
    /\ \A k \in 1..Len(StatusLog) :
         /\ StatusLog[k].status = "completed" =>
              /\ StatusLog[k].progress = 100
              /\ result.discovery = "ok"
              /\ result.scraping = "ok"
         /\ StatusLog[k].status \in Terminal => k = Len(StatusLog)
    /\ (pc = "returned" /\ result.cleanup = "failed" /\ ~result.unexpected) =>
         LastStatus = "completed"

\* a run that returned with 'completed' although the cleanup command failed,
\* after a tour was scraped on its own
C30_CompletedAfterFailedCleanup ==
    /\ pc = "returned"
    /\ result.cleanup = "failed"
    /\ LastStatus = "completed"
    /\ Len(StatusLog) > 4

====
